---------------------------- MODULE Spec2Model ----------------------------
(***************************************************************************)
(* A model of githubRepo2Pdf: the Markdown normalisation passes of         *)
(* repo_to_pdf/processors/markdown_processor.py and the image conversion   *)
(* helpers of repo-to-pdf.py.                                              *)
(*                                                                         *)
(* Text is a sequence of lexemes.  A lexeme is a one-character string, or  *)
(* a longer string such as "http://" or ".svg" that stands for that fixed  *)
(* run of ordinary characters; no lexeme longer than one character holds   *)
(* a character the regular expressions of the program test for.            *)
(* The lexeme "tick" is the backtick.                                      *)
(***************************************************************************)
EXTENDS Integers, Sequences, FiniteSets, TLC

VARIABLES
    txIn,       \* content handed to a single text pass
    txMll,      \* config.pdf_settings.max_line_length
    txOp,       \* the pass that has run: "none", "wrap", "escape", "yaml"
    txOutList,  \* the list out the pass built, one entry per input line
    txOut,      \* the string the pass returned
    imgImport,  \* whether the rasterizing library can be imported in this run
    imgDir,     \* the names of the files in temp_dir/images
    imgLog,     \* the converter calls made so far, each with what it did
    mdDoc,      \* the Markdown document, as the elements it is written from
    mdCtx,      \* whether paths can be resolved, and the URLs that can be fetched
    mdRuns,     \* the runs of the Markdown processing, each fed the output of the last
    fpRepo,     \* the repository, or the file tree, the call works on
    fpConfig,   \* the configuration process_file reads, and where the repository is
    fpImages,   \* temp_dir/images as process_file leaves it: name to origin
    fpCall,     \* the last call of process_file, generate_directory_tree or
                \* _resolve_image_path: its arguments and what came back
    cvPc,       \* where convert is: "start", "front", "files", "done", "failed"
    cvFiles,    \* all_files, the files convert goes through
    cvAt,       \* the place in all_files of the file to process next
    cvDoc,      \* what has been written to the combined document, in order
    cvError,    \* the error convert raised to its caller, "none" if none
    cvRuns,     \* the files of the fragments of each run of convert that has ended
    cvCause,    \* the error raised inside the try block of convert, "none" if none
    cvEngine,   \* whether this call of convert has run the typesetting engine
    cvLog,      \* the files this call of convert logged a failure of process_file for
    cvDebug     \* debug.md: "none" or the document copied to it

textVars == <<txIn, txMll, txOp, txOutList, txOut>>
imgVars  == <<imgImport, imgDir, imgLog>>
mdVars   == <<mdDoc, mdCtx, mdRuns>>
fileVars == <<fpRepo, fpConfig, fpImages, fpCall>>
runVars  == <<cvPc, cvFiles, cvAt, cvDoc, cvError, cvRuns, cvCause, cvEngine, cvLog,
              cvDebug>>

vars == <<textVars, imgVars, mdVars, fileVars, runVars>>

-----------------------------------------------------------------------------
(* Bounds of the model *)

MaxChunks == 2
MaxCalls  == 2
MaxRuns   == 2

\* the element of a set of one element; written The({ F(x) : x \in {e} }), it
\* gives F of the value of e, with e worked out once
The(S) == CHOOSE x \in S : TRUE

\* the context of the Markdown passes before a document is taken up
NoCtx == [source |-> FALSE, served |-> {}]

\* the file processor before a repository is taken up
NoConfig == [ignores |-> <<>>, split_large_files |-> TRUE,
             max_file_size |-> "unset", root |-> <<>>]
NoCall   == [op |-> "none"]

\* convert not called
NoRun ==
    /\ cvPc = "idle" /\ cvFiles = <<>> /\ cvAt = 0 /\ cvDoc = <<>>
    /\ cvError = "none" /\ cvRuns = <<>>
    /\ cvCause = "none" /\ cvEngine = FALSE /\ cvLog = <<>> /\ cvDebug = "none"

-----------------------------------------------------------------------------
(* Strings *)

NL == "\n"
BS == "\\"
BT == "tick"   \* the backtick character, which a TLA+ string cannot hold

Min(a, b) == IF a < b THEN a ELSE b
Max(a, b) == IF a > b THEN a ELSE b

RECURSIVE Flatten(_)
Flatten(ss) == IF ss = <<>> THEN <<>> ELSE Head(ss) \o Flatten(Tail(ss))

\* str.split(sep) for a one-lexeme separator
RECURSIVE Split(_, _)
Split(s, sep) ==
    IF \A i \in 1..Len(s) : s[i] # sep
    THEN <<s>>
    ELSE LET i == CHOOSE k \in 1..Len(s) :
                     s[k] = sep /\ \A j \in 1..(k-1) : s[j] # sep
         IN  <<SubSeq(s, 1, i-1)>> \o Split(SubSeq(s, i+1, Len(s)), sep)

\* str.splitlines(): the pieces between line breaks, without a last empty piece
SplitLines(s) ==
    LET p == Split(s, NL)
    IN  IF p[Len(p)] = <<>> THEN SubSeq(p, 1, Len(p)-1) ELSE p

\* "\n".join(ls)
RECURSIVE JoinLines(_)
JoinLines(ls) ==
    IF ls = <<>> THEN <<>>
    ELSE IF Len(ls) = 1 THEN ls[1]
    ELSE ls[1] \o <<NL>> \o JoinLines(Tail(ls))

\* s.startswith(p)
StartsWith(s, p) == Len(s) >= Len(p) /\ SubSeq(s, 1, Len(p)) = p

\* s.endswith(p)
EndsWith(s, p) == Len(s) >= Len(p) /\ SubSeq(s, Len(s)-Len(p)+1, Len(s)) = p

\* p in s
Contains(s, p) ==
    \E i \in 1..(Len(s)-Len(p)+1) : SubSeq(s, i, i+Len(p)-1) = p

IsSpace(c) == c \in {" ", NL}

\* s.strip()
RECURSIVE LStrip(_)
LStrip(s) == IF s # <<>> /\ IsSpace(Head(s)) THEN LStrip(Tail(s)) ELSE s
RECURSIVE RStrip(_)
RStrip(s) ==
    IF s # <<>> /\ IsSpace(s[Len(s)]) THEN RStrip(SubSeq(s, 1, Len(s)-1)) ELSE s
Strip(s) == RStrip(LStrip(s))

LowerChar(c) ==
    CASE c = "L" -> "l" [] c = "A" -> "a" [] c = "T" -> "t" [] c = "E" -> "e"
      [] c = "X" -> "x" [] c = "S" -> "s" [] c = "V" -> "v" [] c = "G" -> "g"
      [] c = "F" -> "f" [] c = "U" -> "u" [] c = ".SVG" -> ".svg"
      [] OTHER -> c

\* s.lower()
Lower(s) == [i \in 1..Len(s) |-> LowerChar(s[i])]

HexDigits == {"0", "1", "2", "3", "4", "5", "6", "7", "8", "9",
              "a", "b", "c", "d", "e", "f", "A", "B", "C", "D", "E", "F"}

-----------------------------------------------------------------------------
(* Fences: the line pattern of both scanners, three or more backticks at  *)
(* the start of the line (group fence) and the rest of the line (info).   *)

\* the number of backticks the line starts with
RECURSIVE LeadingTicks(_)
LeadingTicks(ln) ==
    IF ln # <<>> /\ Head(ln) = BT THEN 1 + LeadingTicks(Tail(ln)) ELSE 0

FenceMatches(ln) == LeadingTicks(ln) >= 3
FenceGroup(ln)   == SubSeq(ln, 1, LeadingTicks(ln))
InfoGroup(ln)    == SubSeq(ln, LeadingTicks(ln) + 1, Len(ln))

-----------------------------------------------------------------------------
(* _escape_backslash_u_sequences *)

\* The replacement template of both substitutions.  In the template each of
\* the two doubled backslashes is an escaped backslash, so the template ends
\* in a literal backslash and a literal "1"; group 1 is not used.
EscapeTemplate(letter, group1) ==
    <<BS, "textbackslash", "{", "}", letter, BS, "1">>

\* where the pattern (a backslash, the letter, n hex digits) matches in ln
BackslashSeqAt(ln, letter, n) ==
    { i \in 1..(Len(ln) - n - 1) :
        /\ ln[i] = BS
        /\ ln[i+1] = letter
        /\ \A k \in (i+2)..(i+n+1) : ln[k] \in HexDigits }

\* re.sub of the pattern by the template: leftmost match first, then on
RECURSIVE SubBackslashSeq(_, _, _)
SubBackslashSeq(ln, letter, n) ==
    LET hits == BackslashSeqAt(ln, letter, n)
    IN  IF hits = {} THEN ln
        ELSE LET i == CHOOSE h \in hits : \A j \in hits : h <= j
             IN  SubSeq(ln, 1, i-1)
                   \o EscapeTemplate(letter, SubSeq(ln, i+2, i+n+1))
                   \o SubBackslashSeq(SubSeq(ln, i+n+2, Len(ln)), letter, n)

EscapeLine(ln) == SubBackslashSeq(SubBackslashSeq(ln, "U", 8), "u", 4)

\* the loop over the lines; fence is <<>> while no block is open
RECURSIVE EscapeScan(_, _, _, _)
EscapeScan(lines, in_code, fence, out) ==
    IF lines = <<>> THEN out
    ELSE LET ln   == Head(lines)
             rest == Tail(lines)
         IN  IF ~in_code
             THEN IF FenceMatches(ln)
                  THEN EscapeScan(rest, TRUE, FenceGroup(ln), Append(out, ln))
                  ELSE EscapeScan(rest, FALSE, fence, Append(out, EscapeLine(ln)))
             ELSE IF StartsWith(ln, fence)
                  THEN EscapeScan(rest, FALSE, <<>>, Append(out, ln))
                  ELSE EscapeScan(rest, TRUE, fence, Append(out, ln))

EscapeOutList(content) == EscapeScan(SplitLines(content), FALSE, <<>>, <<>>)

-----------------------------------------------------------------------------
(* _hard_wrap_code_blocks *)

MinWrapWidth == 40
MaxWrapWidth == 160

\* hard_wrap_threshold = max(40, self.max_line_length)
HardWrapThreshold(mll) == Max(MinWrapWidth, mll)

\* wrap_width = max(40, min(160, int(self.max_line_length * 0.75)))
WrapWidth(mll) == Max(MinWrapWidth, Min(MaxWrapWidth, (mll * 3) \div 4))

\* range(0, n, step)
RECURSIVE RangeFrom(_, _, _)
RangeFrom(i, n, step) ==
    IF i >= n THEN <<>> ELSE <<i>> \o RangeFrom(i + step, n, step)

\* ln[a:b]
Slice(ln, a, b) == SubSeq(ln, a + 1, Min(b, Len(ln)))

\* WrapLine with each slice one character short
WrapLineShortSlice(ln, wrap_width) ==
    LET starts == RangeFrom(0, Len(ln), wrap_width)
    IN  JoinLines([k \in 1..Len(starts) |->
                      Slice(ln, starts[k], starts[k] + wrap_width - 1)])

\* "\n".join(ln[i : i + wrap_width] for i in range(0, len(ln), wrap_width))
WrapLine(ln, wrap_width) ==
    LET starts == RangeFrom(0, Len(ln), wrap_width)
    IN  JoinLines([k \in 1..Len(starts) |->
                      Slice(ln, starts[k], starts[k] + wrap_width)])

LatexWord    == <<"l", "a", "t", "e", "x">>
RawLatexAttr == <<"{", "=">> \o LatexWord \o <<"}">>
SkipWord     == <<"S", "K", "I", "P">>
SkipMark     == <<"|">> \o SkipWord

\* skip_block = "{=latex}" in info or info == "latex"
IsRawLatexInfo(info) == Contains(info, RawLatexAttr) \/ info = LatexWord

\* FenceCheck without the removal of the skip mark
FenceCheckKeepsMark(fence) == fence

\* fence_check = fence if "SKIP" not in fence else fence.split("|")[0]
FenceCheck(fence) ==
    IF ~Contains(fence, SkipWord) THEN fence ELSE Split(fence, "|")[1]

\* what the loop appends for a line inside an open block that does not close it
WrapCodeLine(ln, skip_block, mll) ==
    IF skip_block THEN ln
    ELSE IF Len(ln) > HardWrapThreshold(mll)
         THEN WrapLine(ln, WrapWidth(mll))
         ELSE ln

\* the loop over the lines; fence is <<>> while no block is open
RECURSIVE WrapScan(_, _, _, _, _, _)
WrapScan(lines, mll, in_code, fence, skip_block, out) ==
    IF lines = <<>> THEN out
    ELSE LET ln   == Head(lines)
             rest == Tail(lines)
         IN  IF ~in_code
             THEN IF FenceMatches(ln)
                  THEN LET info == Lower(Strip(InfoGroup(ln)))
                           skip == IsRawLatexInfo(info)
                           f    == IF skip THEN FenceGroup(ln) \o SkipMark
                                           ELSE FenceGroup(ln)
                       IN  WrapScan(rest, mll, TRUE, f, skip, Append(out, ln))
                  ELSE WrapScan(rest, mll, FALSE, fence, skip_block,
                                Append(out, ln))
             ELSE IF StartsWith(ln, FenceCheck(fence))
                  THEN WrapScan(rest, mll, FALSE, <<>>, FALSE, Append(out, ln))
                  ELSE WrapScan(rest, mll, TRUE, fence, skip_block,
                                Append(out, WrapCodeLine(ln, skip_block, mll)))

HardWrapOutList(content, mll) ==
    WrapScan(SplitLines(content), mll, FALSE, <<>>, FALSE, <<>>)

-----------------------------------------------------------------------------
(* _escape_yaml_delimiters, and the same substitution in process_file *)

RuleLine    == <<"-", "-", "-">>
EscapedRule == <<BS, "-", "-", "-">>

\* One piece of the content between two line breaks.  With re.MULTILINE the
\* anchors of the pattern match at the start and the end of the string and
\* next to every line break, so the pattern matches exactly the pieces that
\* are three hyphens and nothing else.
\* YamlPiece for the pattern without its end anchor
YamlPieceNoEndAnchor(piece) ==
    IF StartsWith(piece, RuleLine)
    THEN EscapedRule \o SubSeq(piece, 4, Len(piece))
    ELSE piece

YamlPiece(piece) == IF piece = RuleLine THEN EscapedRule ELSE piece

EscapeYamlOutList(content) ==
    LET ps == Split(content, NL)
    IN  [k \in 1..Len(ps) |-> YamlPiece(ps[k])]

-----------------------------------------------------------------------------
(* SVG sources.  The lexemes of markup are "<svg", ">", "</svg>", the      *)
(* children "<rect/>", "<symbol", "</symbol>", "<defs>", "</defs>",        *)
(* "<defs", and for an attribute a space, its name, "=", a quote, the      *)
(* lexemes of its value, a quote.                                          *)

QUOTE == "\""

XmlDeclUtf8  == "<?xml version=\"1.0\" encoding=\"UTF-8\"?>"
XmlDeclPlain == "<?xml version=\"1.0\"?>"

Attr(name, value) == <<" ", name, "=", QUOTE>> \o value \o <<QUOTE>>

SvgDoc(attrs, body) == <<"<svg">> \o attrs \o <<">">> \o body \o <<"</svg>">>

\* s.replace(x, "") for a one-lexeme x
Remove(s, x) == SelectSeq(s, LAMBDA c : c # x)

\* ET.fromstring succeeds: a root element, opened and closed
WellFormed(s) ==
    /\ Len(s) >= 3
    /\ s[1] = "<svg"
    /\ s[Len(s)] = "</svg>"
    /\ \E i \in 2..(Len(s)-1) : s[i] = ">"

\* the lexemes of the root tag after "<svg"
RootTag(s) ==
    LET gt == CHOOSE i \in 2..Len(s) : s[i] = ">" /\ \A j \in 2..(i-1) : s[j] # ">"
    IN  SubSeq(s, 2, gt - 1)

\* tree.get(name, ''): the value of the attribute of the root, or the empty string
AttrValue(s, name) ==
    LET tag  == RootTag(s)
        hits == { i \in 2..(Len(tag) - 3) :
                    /\ tag[i-1] = " "
                    /\ tag[i] = name
                    /\ tag[i+1] = "="
                    /\ tag[i+2] = QUOTE
                    /\ \E e \in (i+3)..Len(tag) : tag[e] = QUOTE }
    IN  IF hits = {} THEN <<>>
        ELSE LET i == CHOOSE h \in hits : \A j \in hits : h <= j
                 e == CHOOSE q \in (i+3)..Len(tag) :
                          tag[q] = QUOTE /\ \A j \in (i+3)..(q-1) : tag[j] # QUOTE
             IN  SubSeq(tag, i+3, e-1)

Digits == {"0", "1", "2", "3", "4", "5", "6", "7", "8", "9"}

\* float(v) does not raise ValueError: digits with at most one point
IsNumber(v) ==
    /\ \A i \in 1..Len(v) : v[i] \in Digits \cup {"."}
    /\ \E i \in 1..Len(v) : v[i] \in Digits
    /\ Cardinality({ i \in 1..Len(v) : v[i] = "." }) <= 1

\* float(v) == 0
IsZero(v) == IsNumber(v) /\ \A i \in 1..Len(v) : v[i] \in {"0", "."}

\* v.replace('px', '').strip()
WithoutPx(v) == Strip(Remove(v, "px"))

\* viewBox.split(): the runs of lexemes between white space
SplitWords(v) == SelectSeq(Split(v, " "), LAMBDA w : w # <<>>)

UnitLexemes == {"px", "pt", "cm", "mm", "in"}

\* any(unit in value.lower() for unit in ['px', 'pt', 'cm', 'mm', 'in'])
HasUnit(v) == \E i \in 1..Len(v) : LowerChar(v[i]) \in UnitLexemes

\* the try block that rejects a width or a height of zero; a ValueError on
\* the width leaves the block before the height is looked at
ZeroSized(width, height) ==
    IF width # <<>> /\ ~IsNumber(WithoutPx(width)) THEN FALSE
    ELSE IF width # <<>> /\ IsZero(WithoutPx(width)) THEN TRUE
    ELSE IF height # <<>> /\ ~IsNumber(WithoutPx(height)) THEN FALSE
    ELSE height # <<>> /\ IsZero(WithoutPx(height))

\* the viewBox is consulted only when a width or a height is missing
ViewBoxUsed(width, height, viewBox) ==
    /\ viewBox # <<>>
    /\ ~(width # <<>> /\ height # <<>>)
    /\ Len(SplitWords(viewBox)) = 4

\* the viewBox block returns False: four parts, the third or fourth zero
ZeroViewBox(width, height, viewBox) ==
    /\ ViewBoxUsed(width, height, viewBox)
    /\ LET parts == SplitWords(viewBox)
       IN  IF ~IsNumber(parts[3]) THEN FALSE
           ELSE IF IsZero(parts[3]) THEN TRUE
           ELSE IsZero(parts[4])

\* width and height were taken from the viewBox
ViewBoxApplied(width, height, viewBox) ==
    /\ ViewBoxUsed(width, height, viewBox)
    /\ LET parts == SplitWords(viewBox)
       IN  IsNumber(parts[3]) /\ IsNumber(parts[4])
             /\ ~IsZero(parts[3]) /\ ~IsZero(parts[4])

WithUnit(v) == IF v # <<>> /\ ~HasUnit(v) THEN v \o <<"px">> ELSE v

\* the width and height of the tree handed to the rasterizer
FinalSize(svg) ==
    LET width   == Strip(AttrValue(svg, "width"))
        height  == Strip(AttrValue(svg, "height"))
        viewBox == Strip(AttrValue(svg, "viewBox"))
        parts   == SplitWords(viewBox)
        w1 == IF ViewBoxApplied(width, height, viewBox)
              THEN parts[3] \o <<"px">> ELSE AttrValue(svg, "width")
        h1 == IF ViewBoxApplied(width, height, viewBox)
              THEN parts[4] \o <<"px">> ELSE AttrValue(svg, "height")
        sized == Strip(w1) # <<>> /\ Strip(h1) # <<>>
        w2 == IF sized THEN w1 ELSE <<"8", "0", "0", "px">>
        h2 == IF sized THEN h1 ELSE <<"6", "0", "0", "px">>
    IN  [width |-> WithUnit(w2), height |-> WithUnit(h2)]

\* what the external tool did: "ok" exit status 0 and the output file there,
\* "nofile" exit status 0 without the file, "fail" another exit status and
\* no file, "partial" another exit status with a file left, "missing" the
\* tool cannot be started (subprocess.run raises)
InkOutcomes == {"ok", "nofile", "fail", "partial", "missing"}

\* a conversion: what it returned, whether the output file was written,
\* whether the rasterizing library and the external tool were run, whether
\* the temporary copy was left, the statement of the try block that raised
\* ("none", "import", "parse", "render") and what the external tool did
Rejected == [ok |-> FALSE, wrote |-> FALSE, cairo |-> FALSE, ink |-> FALSE,
             temp |-> FALSE, raised |-> "none", tool |-> "none"]

\* the except branch with a test of the exit status alone
FallbackExitStatusOnly(raised, inkscape) ==
    [ok     |-> inkscape \in {"ok", "nofile"},
     wrote  |-> inkscape \in {"ok", "partial"},
     cairo  |-> raised = "render",
     ink    |-> TRUE,
     temp   |-> inkscape = "missing",
     raised |-> raised,
     tool   |-> inkscape]

\* the except branch: the external tool on a temporary copy of the source
Fallback(raised, inkscape) ==
    [ok     |-> inkscape = "ok",
     wrote  |-> inkscape \in {"ok", "partial"},
     cairo  |-> raised = "render",
     ink    |-> TRUE,
     temp   |-> inkscape = "missing",
     raised |-> raised,
     tool   |-> inkscape]

\* '<symbol' in svg_content or '<defs>' in svg_content, on the characters
IconDefinition(svg) ==
    \/ Contains(svg, <<"<symbol">>)
    \/ Contains(svg, <<"<defs>">>)
    \/ Contains(svg, <<"<defs", ">">>)

\* convert_svg_to_png(svg_content, output_path).  The three last arguments
\* are what the surroundings do: whether the rasterizing library can be
\* imported, whether its call succeeds, and what the external tool does.
\* The import is the first statement of the try block, so its failure
\* reaches the except branch before the content is looked at.
ConvertSvgToPng(svg_content, importOk, cairoOk, inkscape) ==
    LET svg     == Remove(Remove(svg_content, XmlDeclUtf8), XmlDeclPlain)
        width   == Strip(AttrValue(svg, "width"))
        height  == Strip(AttrValue(svg, "height"))
        viewBox == Strip(AttrValue(svg, "viewBox"))
    IN  IF ~importOk THEN Fallback("import", inkscape)
        ELSE IF IconDefinition(svg) THEN Rejected
        ELSE IF ~WellFormed(svg) THEN Fallback("parse", inkscape)
        ELSE IF ZeroSized(width, height) THEN Rejected
        ELSE IF ZeroViewBox(width, height, viewBox) THEN Rejected
        ELSE IF cairoOk
             THEN [ok |-> TRUE, wrote |-> TRUE, cairo |-> TRUE, ink |-> FALSE,
                   temp |-> FALSE, raised |-> "none", tool |-> "none"]
             ELSE Fallback("render", inkscape)

-----------------------------------------------------------------------------
(* The image directory and the two cached conversions.  A file name is a   *)
(* sequence of lexemes; the directory is the set of the names in it.       *)

SvgSized     == SvgDoc(Attr("width", <<"1", "0">>) \o Attr("height", <<"5">>),
                       <<"<rect/>">>)
SvgViewBox   == <<XmlDeclUtf8>> \o
                SvgDoc(Attr("viewBox", <<"0", " ", "0", " ", "2", "0", " ", "1", "0">>),
                       <<"<rect/>">>)
SvgSymbol    == SvgDoc(Attr("width", <<"1", "0">>),
                       <<"<symbol", ">", "<rect/>", "</symbol>">>)
SvgDefs      == <<XmlDeclPlain>> \o
                SvgDoc(<<>>, <<"<defs>", "</defs>", "<rect/>">>)
SvgDefsAttr  == SvgDoc(<<>>, <<"<defs">> \o Attr("id", <<"a">>) \o
                             <<">", "</defs>", "<rect/>">>)
SvgZeroWidth == SvgDoc(Attr("width", <<"0", "px">>) \o Attr("height", <<"5">>),
                       <<"<rect/>">>)
SvgBroken    == <<"<svg", ">", "<rect/>">>
SvgZeroPoints  == SvgDoc(Attr("width", <<"0", "pt">>) \o Attr("height", <<"5">>),
                         <<"<rect/>">>)
SvgZeroHeight  == SvgDoc(Attr("width", <<"1", "0", "pt">>)
                           \o Attr("height", <<"0">>), <<"<rect/>">>)
SvgZeroBox     == SvgDoc(Attr("viewBox", <<"0", " ", "0", " ", "0", " ", "1", "0">>),
                         <<"<rect/>">>)
SvgZeroBoxSized == SvgDoc(Attr("width", <<"1", "0">>) \o Attr("height", <<"5">>)
                            \o Attr("viewBox",
                                    <<"0", " ", "0", " ", "1", "0", " ", "0">>),
                          <<"<rect/>">>)

SvgPool == {SvgSized, SvgViewBox, SvgSymbol, SvgDefs, SvgDefsAttr,
            SvgZeroWidth, SvgBroken,
            SvgZeroPoints, SvgZeroHeight, SvgZeroBox, SvgZeroBoxSized}

\* the characters of a sequence of lexemes as one lexeme
RECURSIVE StrJoin(_)
StrJoin(s) == IF s = <<>> THEN "" ELSE Head(s) \o StrJoin(Tail(s))

\* hashlib.md5(text.encode()).hexdigest(): one opaque lexeme for each text,
\* different texts giving different lexemes
Md5(text) == "md5(" \o StrJoin(text) \o ")"

\* png_path.name and temp_svg.name
PngName(svg_content)  == <<Md5(svg_content), ".png">>
TempName(svg_content) == <<"temp_", Md5(svg_content), ".svg">>

\* the files below the project root: path and content (a raster file has
\* no SVG content to read)
PathLogo     == <<"logo", ".svg">>
PathLogoCopy == <<"docs/", "logo", ".SVG">>
PathFigure   == <<"docs/", "fig", ".svg">>
PathIcons    == <<"icons", ".svg">>
PathGone     == <<"gone", ".svg">>
PathPhoto    == <<"photo", ".png">>

ProjectPaths == {PathLogo, PathLogoCopy, PathFigure, PathIcons, PathPhoto}

PathPool == ProjectPaths \cup {PathGone}

FileContent(path) ==
    CASE path = PathLogo     -> SvgSized
      [] path = PathLogoCopy -> SvgSized
      [] path = PathFigure   -> SvgViewBox
      [] path = PathIcons    -> SvgSymbol
      [] OTHER               -> <<>>

\* project_root as a prefix of an absolute path
RootDir == "/repo/"

IsDir(c) == c \in {"docs/", "images/", "good/", "bad/"}

\* the path the file system follows: "./" skipped, "../" leaving the
\* directory before it
RECURSIVE Normalize(_, _)
Normalize(path, done) ==
    IF path = <<>> THEN done
    ELSE IF Head(path) = "./" THEN Normalize(Tail(path), done)
    ELSE IF Head(path) = "../" /\ done # <<>> /\ IsDir(done[Len(done)])
         THEN Normalize(Tail(path), SubSeq(done, 1, Len(done) - 1))
    ELSE Normalize(Tail(path), Append(done, Head(path)))

\* img_path = Path(path), joined to project_root unless absolute
UnderRoot(path) ==
    IF path # <<>> /\ path[1] = RootDir THEN Tail(path) ELSE path

\* img_path.exists()
Exists(path) == Normalize(UnderRoot(path), <<>>) \in ProjectPaths

\* the image directory after a conversion: the PNG if one was written; the
\* temporary copy of the source is there if the external tool could not be
\* started, and gone if it ran
DirAfter(dir, conv, png, temp) ==
    IF conv.temp THEN dir \cup {temp}
    ELSE IF conv.ink THEN (dir \ {temp}) \cup (IF conv.wrote THEN {png} ELSE {})
    ELSE dir \cup (IF conv.wrote THEN {png} ELSE {})

\* the conversion without the test for an existing PNG
CachedConvertNoCacheTest(svg_content, dir, importOk, cairoOk, inkscape) ==
    The({ [hit  |-> FALSE,
           ok   |-> conv.ok,
           conv |-> conv,
           dir  |-> DirAfter(dir, conv, PngName(svg_content), TempName(svg_content))] :
          conv \in {ConvertSvgToPng(svg_content, importOk, cairoOk, inkscape)} })

\* the lines shared by the two operations: the cache test on the hashed
\* name, the conversion, and the image directory afterwards
CachedConvert(svg_content, dir, importOk, cairoOk, inkscape) ==
    LET hit == PngName(svg_content) \in dir
    IN  The({ [hit  |-> hit,
               ok   |-> hit \/ conv.ok,
               conv |-> conv,
               dir  |-> DirAfter(dir, conv, PngName(svg_content),
                                 TempName(svg_content))] :
              conv \in {IF hit THEN Rejected
                        ELSE ConvertSvgToPng(svg_content, importOk, cairoOk,
                                             inkscape)} })

Call(op, arg, content, c, result) ==
    [op |-> op, arg |-> arg, content |-> content, called |-> ~c.hit,
     conv |-> c.conv, result |-> result, before |-> imgDir, after |-> c.dir]

NoConvert(dir) == [hit |-> TRUE, ok |-> FALSE, conv |-> Rejected, dir |-> dir]

InitImg ==
    /\ imgImport \in BOOLEAN
    /\ imgDir = {}
    /\ imgLog = <<>>
    /\ txIn = <<>> /\ txMll = 80 /\ txOp = "idle"
    /\ txOutList = <<>> /\ txOut = <<>>
    /\ mdDoc = <<>> /\ mdCtx = NoCtx /\ mdRuns = <<>>
    /\ fpRepo = "none" /\ fpConfig = NoConfig /\ fpImages = <<>> /\ fpCall = NoCall
    /\ NoRun

\* _convert_svg_content_to_png(svg_content): the name of the PNG, or ""
ConvertSvgContentToPng ==
    /\ Len(imgLog) < MaxCalls
    /\ \E svg_content \in SvgPool, cairoOk \in BOOLEAN, inkscape \in InkOutcomes :
       \E c \in {CachedConvert(svg_content, imgDir, imgImport, cairoOk, inkscape)} :
         LET result == IF c.ok THEN PngName(svg_content) ELSE <<>>
         IN  /\ imgDir' = c.dir
             /\ imgLog' = Append(imgLog,
                    Call("content", svg_content, svg_content, c, result))
    /\ UNCHANGED <<imgImport, textVars, mdVars, fileVars, runVars>>

\* the body of _convert_image_to_png(path): the conversion made, and
\* "images/<hash>.png" or the path as given
ImageToPng(path, dir, importOk, cairoOk, inkscape) ==
    LET svg_content == FileContent(Normalize(UnderRoot(path), <<>>))
        isSvg == Exists(path) /\ EndsWith(Lower(path), <<".svg">>)
    IN  The({ [c       |-> c,
               content |-> IF isSvg THEN svg_content ELSE <<>>,
               result  |-> IF isSvg /\ c.ok
                           THEN <<"images/">> \o PngName(svg_content)
                           ELSE path] :
              c \in {IF isSvg
                     THEN CachedConvert(svg_content, dir, importOk, cairoOk, inkscape)
                     ELSE NoConvert(dir)} })

\* _convert_image_to_png(path)
ConvertImageToPng ==
    /\ Len(imgLog) < MaxCalls
    /\ \E path \in PathPool, cairoOk \in BOOLEAN, inkscape \in InkOutcomes :
       \E r \in {ImageToPng(path, imgDir, imgImport, cairoOk, inkscape)} :
             /\ imgDir' = r.c.dir
             /\ imgLog' = Append(imgLog,
                    Call("file", path, r.content, r.c, r.result))
    /\ UNCHANGED <<imgImport, textVars, mdVars, fileVars, runVars>>

NextImg == ConvertSvgContentToPng \/ ConvertImageToPng

SpecImg == InitImg /\ [][NextImg]_vars

-----------------------------------------------------------------------------
(* Markdown image syntax.  The characters the patterns look for, ! [ ] ( ) *)
(* : the quote, the space and the line break, are lexemes of their own;   *)
(* no other lexeme contains one of them.                                   *)

\* no line break in s[a..b]: what a dot of a pattern may run over
NoNL(s, a, b) == \A k \in a..b : s[k] # NL

\* the least element of a non-empty set of numbers
Least(S) == The({ CHOOSE x \in T : \A y \in T : x <= y : T \in {S} })

NoMatch == [a |-> 0, b |-> 0, c |-> 0, d |-> 0, e |-> 0]

Alphabet ==
    {"a", "b", "c", "d", "e", "f", "g", "h", "i", "j", "k", "l", "m",
     "n", "o", "p", "q", "r", "s", "t", "u", "v", "w", "x", "y", "z"}
    \cup
    {"A", "B", "C", "D", "E", "F", "G", "H", "I", "J", "K", "L", "M",
     "N", "O", "P", "Q", "R", "S", "T", "U", "V", "W", "X", "Y", "Z"}

\* the lexemes of several characters that are words
WordLexemes == {"py", "js", "title", "alt", "src", "Logo", "see", "end"}

\* \w
IsWord(c) == c \in Alphabet \cup Digits \cup WordLexemes \cup {"_"}

\* the match of ```(\w+)\s+title="([^"]+)" that starts at i: b the last
\* lexeme of group 1, e the closing quote
TitleMatchAt(s, i) ==
    IF ~(i + 2 <= Len(s) /\ s[i] = BT /\ s[i+1] = BT /\ s[i+2] = BT)
    THEN NoMatch
    ELSE LET wordEnds == { b \in (i+3)..Len(s) :
                             /\ \A k \in (i+3)..b : IsWord(s[k])
                             /\ b + 1 <= Len(s) /\ IsSpace(s[b+1]) }
         IN  IF wordEnds = {} THEN NoMatch
             ELSE LET b  == Least(wordEnds)
                      cs == { c \in (b+2)..Len(s) :
                                /\ \A k \in (b+1)..(c-1) : IsSpace(s[k])
                                /\ ~IsSpace(s[c]) }
                  IN  IF cs = {} THEN NoMatch
                      ELSE LET c  == Least(cs)
                               es == { e \in (c+4)..Len(s) :
                                         /\ s[e] = QUOTE
                                         /\ \A k \in (c+3)..(e-1) : s[k] # QUOTE }
                           IN  IF c + 2 <= Len(s) /\ s[c] = "title"
                                    /\ s[c+1] = "=" /\ s[c+2] = QUOTE /\ es # {}
                               THEN [NoMatch EXCEPT !.a = i, !.b = b, !.e = Least(es)]
                               ELSE NoMatch

\* re.sub of that pattern by ```\1, from position pos on
RECURSIVE SubCodeBlockTitles(_, _)
SubCodeBlockTitles(s, pos) ==
    LET starts == { i \in pos..Len(s) : TitleMatchAt(s, i).a # 0 }
    IN  IF starts = {} THEN SubSeq(s, pos, Len(s))
        ELSE The({ SubSeq(s, pos, m.b) \o SubCodeBlockTitles(s, m.e + 1) :
                     m \in {TitleMatchAt(s, Least(starts))} })

\* _remove_code_block_titles(content)
RemoveCodeBlockTitles(content) == SubCodeBlockTitles(content, 1)

\* ^ and $ under re.MULTILINE
LineStart(s, i) == i = 1 \/ s[i-1] = NL
LineEnd(s, i)   == i = Len(s) \/ s[i+1] = NL

\* the match of ^\[(.*?)\]:\s*(\S+)(?:\s+"(.*?)")?$ that starts at i: a the
\* bracket closing the id, b and c the first and last lexeme of the url,
\* d and e the quotes of the title (0 without a title); e or c ends the match
DefMatchAt(s, i) ==
    IF ~(LineStart(s, i) /\ i <= Len(s) /\ s[i] = "[") THEN NoMatch
    ELSE LET UrlStart(a) == Least({ b \in (a+2)..(Len(s)+1) :
                                      /\ \A k \in (a+2)..(b-1) : IsSpace(s[k])
                                      /\ (b = Len(s) + 1 \/ ~IsSpace(s[b])) })
             UrlEnd(b) == Least({ c \in b..Len(s) :
                                    c = Len(s) \/ IsSpace(s[c+1]) })
             TitleOpen(c) ==
                 LET ds == { d \in (c+2)..Len(s) :
                               /\ \A k \in (c+1)..(d-1) : IsSpace(s[k])
                               /\ ~IsSpace(s[d]) }
                 IN  IF ds # {} /\ s[Least(ds)] = QUOTE THEN Least(ds) ELSE 0
             TitleClose(d) ==
                 LET es == { e \in (d+1)..Len(s) :
                               /\ s[e] = QUOTE /\ LineEnd(s, e)
                               /\ NoNL(s, d+1, e-1) }
                 IN  IF d # 0 /\ es # {} THEN Least(es) ELSE 0
             Ends(a, b, c, d, e) ==
                 IF b > Len(s) THEN NoMatch
                 ELSE IF e # 0 THEN [a |-> a, b |-> b, c |-> c, d |-> d, e |-> e]
                 ELSE IF LineEnd(s, c)
                 THEN [a |-> a, b |-> b, c |-> c, d |-> 0, e |-> 0]
                 ELSE NoMatch
             Tail3(a) ==
                 The({ IF b > Len(s) THEN NoMatch
                       ELSE The({ The({ Ends(a, b, c, d, TitleClose(d)) :
                                        d \in {TitleOpen(c)} }) :
                                  c \in {UrlEnd(b)} }) :
                       b \in {UrlStart(a)} })
             as == { a \in (i+1)..(Len(s)-1) :
                       /\ s[a] = "]" /\ s[a+1] = ":"
                       /\ NoNL(s, i+1, a-1)
                       /\ Tail3(a).a # 0 }
         IN  IF as = {} THEN NoMatch ELSE Tail3(Least(as))

DefEnd(m) == IF m.e # 0 THEN m.e ELSE m.c

\* re.finditer over the content, building reference_links: the definitions
\* in the order met, a later one of the same id overriding an earlier one
RECURSIVE FindDefs(_, _)
FindDefs(s, pos) ==
    LET starts == { i \in pos..Len(s) : DefMatchAt(s, i).a # 0 }
    IN  IF starts = {} THEN <<>>
        ELSE The({ The({
                 <<[id    |-> SubSeq(s, i+1, m.a-1),
                    url   |-> SubSeq(s, m.b, m.c),
                    title |-> IF m.d = 0 THEN <<>> ELSE SubSeq(s, m.d+1, m.e-1)]>>
                 \o FindDefs(s, DefEnd(m) + 1) :
                     m \in {DefMatchAt(s, i)} }) : i \in {Least(starts)} })

\* _extract_reference_links(content)
ExtractReferenceLinks(content) == FindDefs(content, 1)

\* ref_id in reference_links
Defined(reference_links, ref_id) ==
    \E k \in 1..Len(reference_links) : reference_links[k].id = ref_id

\* reference_links[ref_id]
RefOf(reference_links, ref_id) ==
    LET ks == { k \in 1..Len(reference_links) : reference_links[k].id = ref_id }
    IN  reference_links[CHOOSE k \in ks : \A j \in ks : j <= k]

-----------------------------------------------------------------------------
(* What the image passes call.  A pass runs in a context ctx, which says   *)
(* whether source_file and repo_root were given, which URLs a download     *)
(* can fetch, and what the rasterizing library and the external tool do;   *)
(* it carries along st, the image directory and the calls made so far.     *)

UrlBadge == <<"https://", "good/", "badge", ".svg">>
UrlPhoto == <<"http://", "good/", "photo", ".png">>
UrlDown  == <<"http://", "bad/", "x", ".png">>

\* response.headers.get('Content-Type', '').lower() and response.text
ContentType(url) ==
    CASE url = UrlBadge -> "image/svg+xml"
      [] url = UrlPhoto -> "image/png"
      [] OTHER          -> "text/html"

ResponseText(url) == IF url = UrlBadge THEN SvgSized ELSE <<"bytes">>

ExtLexemes == {".png", ".svg", ".SVG", ".jpg", ".gif"}

\* os.path.splitext(url)[1]
SplitExt(url) ==
    IF url # <<>> /\ url[Len(url)] \in ExtLexemes THEN url[Len(url)] ELSE ""

\* url.startswith(('http://', 'https://'))
IsRemote(url) == url # <<>> /\ url[1] \in {"http://", "https://"}

\* path.lower().endswith('.svg')
IsSvgPath(path) == EndsWith(Lower(path), <<".svg">>)

\* the image directory after a call and the call added to the calls made:
\* what was asked, what came back, whether a file was written
Record(st, op, arg, result, dir, wrote) ==
    [dir   |-> dir,
     calls |-> Append(st.calls, [op |-> op, arg |-> arg, result |-> result,
                                 wrote |-> wrote])]

\* the file written whether or not it is there already
SaveImageAlways(dir, file) == [wrote |-> TRUE, dir |-> dir \cup {file}]

\* if local_path.exists(): return ...; otherwise the response is written
SaveImage(dir, file) == [wrote |-> file \notin dir, dir |-> dir \cup {file}]

\* _download_remote_image(url, images_dir): the reference of the local
\* file, or the empty string
Download(url, ctx, st) ==
    LET type == ContentType(url)
        name == Md5(url)
    IN  IF url \notin ctx.served
        THEN [result |-> <<>>,
              st |-> Record(st, "download", url, <<>>, st.dir, FALSE)]
        ELSE IF type = "image/svg+xml" \/ IsSvgPath(url)
        THEN LET png  == <<name, ".png">>
                 hit  == png \in st.dir
                 Done(conv, res) ==
                     [result |-> res,
                      st |-> Record(st, "download", url, res,
                                    DirAfter(st.dir, conv, png,
                                             <<"temp_", name, ".svg">>),
                                    conv.wrote)]
             IN  The({ Done(conv, IF hit \/ conv.ok THEN <<"images/">> \o png
                                  ELSE <<>>) :
                       conv \in {IF hit THEN Rejected
                                 ELSE ConvertSvgToPng(ResponseText(url), ctx.importOk,
                                                      ctx.cairoOk, ctx.inkscape)} })
        ELSE LET ext == IF type = "image/png" THEN ".png"
                        ELSE IF type = "image/jpeg" THEN ".jpg"
                        ELSE IF type = "image/gif" THEN ".gif"
                        ELSE IF SplitExt(url) # "" THEN SplitExt(url)
                        ELSE ".png"
                 res  == <<"images/", name, ext>>
                 save == SaveImage(st.dir, <<name, ext>>)
             IN  [result |-> res,
                  st |-> Record(st, "download", url, res, save.dir, save.wrote)]

\* convert_image_to_png(path, root) of the image converter
ConvertImage(path, ctx, st) ==
    The({ [result |-> r.result,
           st |-> Record(st, "convert", path, r.result, r.c.dir,
                         r.c.conv.wrote)] :
          r \in {ImageToPng(path, st.dir, ctx.importOk, ctx.cairoOk,
                            ctx.inkscape)} })

\* source_file.parent, below repo_root
SourceDir == <<"docs/">>

\* str.lstrip(chars) for the lexemes made of those characters only
RECURSIVE LStripOf(_, _)
LStripOf(s, lexemes) ==
    IF s # <<>> /\ Head(s) \in lexemes THEN LStripOf(Tail(s), lexemes) ELSE s

\* a path joined to a directory by the / of pathlib, which drops the
\* components that are a single dot and keeps those that are two
PurePath(p) == Remove(p, "./")

\* a directory of the tree that holds the files: the root, or the
\* directory of one of the files
DirIn(dir, files) ==
    \/ dir = <<>>
    \/ \E f \in files : Len(f) > Len(dir) /\ SubSeq(f, 1, Len(dir)) = dir

\* the places that are not below the root: the directories above it,
\* which are there and hold nothing else, and the end of a walk that failed
Above   == <<"../">>
Nowhere == <<"?">>

\* the place the file system comes to along a path from the root: "./"
\* stays, "../" leaves a directory that is there, and the walk fails at a
\* directory that is not there
RECURSIVE Walk(_, _, _)
Walk(path, done, files) ==
    IF path = <<>> THEN done
    ELSE IF done = Nowhere THEN Nowhere
    ELSE IF Head(path) = "./" THEN Walk(Tail(path), done, files)
    ELSE IF Head(path) = "../"
    THEN IF done \in {<<>>, Above} THEN Walk(Tail(path), Above, files)
         ELSE IF DirIn(done, files)
         THEN Walk(Tail(path), SubSeq(done, 1, Len(done) - 1), files)
         ELSE Nowhere
    ELSE IF done = Above THEN Nowhere
    ELSE Walk(Tail(path), Append(done, Head(path)), files)

\* path.exists() in a tree that holds the files
ExistsIn(path, files) ==
    \E place \in {Walk(UnderRoot(path), <<>>, files)} :
        place # Nowhere /\ (place = Above \/ place \in files \/ DirIn(place, files))

\* Path.resolve() of a path below the root, no link in it: "./" dropped
\* and "../" taken with the component before it, there or not
RECURSIVE ResolveLex(_, _)
ResolveLex(path, done) ==
    IF path = <<>> THEN done
    ELSE IF Head(path) = "./" THEN ResolveLex(Tail(path), done)
    ELSE IF Head(path) = "../" /\ done # <<>> /\ done[Len(done)] # "../"
    THEN ResolveLex(Tail(path), SubSeq(done, 1, Len(done) - 1))
    ELSE ResolveLex(Tail(path), Append(done, Head(path)))

\* possible_paths with the root first
PossibleImagePathsRootFirst(p) ==
    The({ << <<RootDir>> \o PurePath(p),
             <<RootDir>> \o SourceDir \o PurePath(p),
             <<RootDir>> \o ResolveLex(SourceDir \o p, <<>>),
             <<RootDir>> \o ResolveLex(SourceDir \o q, <<>>),
             <<RootDir>> \o PurePath(q) >> :
          q \in {LStripOf(p, {".", "/", "./", "../"})} })

\* possible_paths, for img_path after its leading slashes are taken off
PossibleImagePaths(p) ==
    The({ << <<RootDir>> \o SourceDir \o PurePath(p),
             <<RootDir>> \o PurePath(p),
             <<RootDir>> \o ResolveLex(SourceDir \o p, <<>>),
             <<RootDir>> \o ResolveLex(SourceDir \o q, <<>>),
             <<RootDir>> \o PurePath(q) >> :
          q \in {LStripOf(p, {".", "/", "./", "../"})} })

\* _resolve_image_path(img_path, source_file, repo_root) in a tree that
\* holds the files: the first of the five candidates that exists, or None
\* (here the empty sequence); given: source_file and repo_root both there
ResolveImagePathIn(img_path, given, files) ==
    IF ~given THEN <<>>
    ELSE The({ IF \A k \in 1..5 : ~ExistsIn(possible_paths[k], files) THEN <<>>
               ELSE possible_paths[Least({ k \in 1..5 :
                                            ExistsIn(possible_paths[k], files) })] :
               possible_paths \in
                   {PossibleImagePaths(IF StartsWith(img_path, <<"/">>)
                                       THEN LStripOf(img_path, {"/"})
                                       ELSE img_path)} })

\* _resolve_image_path for the files of the project
ResolveImagePath(img_path, ctx) ==
    ResolveImagePathIn(img_path, ctx.source, ProjectPaths)

\* f'![{alt}]({path} "{title}")', or f'![{alt}]({path})' without a title
Inline(alt, path, title) ==
    <<"!", "[">> \o alt \o <<"]", "(">> \o path
       \o (IF title # <<>> THEN <<" ", QUOTE>> \o title \o <<QUOTE>> ELSE <<>>)
       \o <<")">>

-----------------------------------------------------------------------------
(* The image passes.  A lazy group takes the shortest run that lets the    *)
(* rest of the pattern match, so each index below is the least that fits.  *)

\* the match of !\[(.*?)\]\[(.*?)\] that starts at i: a closes the alt
\* text, e closes the id
RefImageMatchAt(s, i) ==
    IF ~(i + 1 <= Len(s) /\ s[i] = "!" /\ s[i+1] = "[") THEN NoMatch
    ELSE LET IdEnds(a) == { e \in (a+2)..Len(s) :
                              s[e] = "]" /\ NoNL(s, a+2, e-1) }
             as == { a \in (i+2)..(Len(s)-1) :
                       /\ s[a] = "]" /\ s[a+1] = "["
                       /\ NoNL(s, i+2, a-1)
                       /\ IdEnds(a) # {} }
         IN  IF as = {} THEN NoMatch
             ELSE The({ [NoMatch EXCEPT !.a = a, !.e = Least(IdEnds(a))] :
                        a \in {Least(as)} })

\* the match of !\[(.*?)\]\((.*?)\s+"(.*?)"\) that starts at i: a closes the
\* alt text, b is the first white space after the path, c and d are the
\* quotes of the title, e is the closing parenthesis
TitledImageMatchAt(s, i) ==
    IF ~(i + 1 <= Len(s) /\ s[i] = "!" /\ s[i+1] = "[") THEN NoMatch
    ELSE LET Quote(b) ==
                 LET cs == { c \in (b+1)..Len(s) :
                               /\ \A k \in b..(c-1) : IsSpace(s[k])
                               /\ ~IsSpace(s[c]) }
                 IN  IF cs # {} /\ s[Least(cs)] = QUOTE THEN Least(cs) ELSE 0
             Closes(c) == { d \in (c+1)..(Len(s)-1) :
                              /\ s[d] = QUOTE /\ s[d+1] = ")"
                              /\ NoNL(s, c+1, d-1) }
             Spaces(a) == { b \in (a+2)..Len(s) :
                              /\ IsSpace(s[b])
                              /\ NoNL(s, a+2, b-1)
                              /\ Quote(b) # 0
                              /\ Closes(Quote(b)) # {} }
             as == { a \in (i+2)..(Len(s)-1) :
                       /\ s[a] = "]" /\ s[a+1] = "("
                       /\ NoNL(s, i+2, a-1)
                       /\ Spaces(a) # {} }
             Found(a, b, c, d) == [a |-> a, b |-> b, c |-> c, d |-> d, e |-> d + 1]
         IN  IF as = {} THEN NoMatch
             ELSE The({ The({ The({ Found(a, b, c, Least(Closes(c))) :
                                    c \in {Quote(b)} }) :
                              b \in {Least(Spaces(a))} }) :
                        a \in {Least(as)} })

\* the match of !\[(.*?)\]\((.*?)\) that starts at i
PlainImageMatchAt(s, i) ==
    IF ~(i + 1 <= Len(s) /\ s[i] = "!" /\ s[i+1] = "[") THEN NoMatch
    ELSE LET Ends(a) == { e \in (a+2)..Len(s) :
                            s[e] = ")" /\ NoNL(s, a+2, e-1) }
             as == { a \in (i+2)..(Len(s)-1) :
                       /\ s[a] = "]" /\ s[a+1] = "("
                       /\ NoNL(s, i+2, a-1)
                       /\ Ends(a) # {} }
         IN  IF as = {} THEN NoMatch
             ELSE The({ [NoMatch EXCEPT !.a = a, !.e = Least(Ends(a))] :
                        a \in {Least(as)} })

\* the lexemes that end a tag
TagClosers == {">", "/>"}

\* the match of <img\s+[^>]+> that starts at i, letters of either case
HtmlImageMatchAt(s, i) ==
    IF ~(i + 1 <= Len(s) /\ s[i] \in {"<img", "<IMG"} /\ IsSpace(s[i+1]))
    THEN NoMatch
    ELSE LET es == { e \in (i+2)..Len(s) :
                       /\ s[e] \in TagClosers
                       /\ \A k \in (i+1)..(e-1) : s[k] \notin TagClosers
                       /\ (s[e] = ">" => e >= i + 3) }
         IN  IF es = {} THEN NoMatch
             ELSE [NoMatch EXCEPT !.a = i, !.e = Least(es)]

\* the lexemes in which the character > occurs
GtLexemes == {">", "/>", "<rect/>", "<defs>", "</defs>", "</symbol>"}

\* the match of <svg\s*.*?>.*?</svg> that starts at i, a dot running over
\* line breaks too, letters of either case
InlineSvgMatchAt(s, i) ==
    IF ~(i <= Len(s) /\ s[i] \in {"<svg", "<SVG"}) THEN NoMatch
    ELSE LET es == { e \in (i+2)..Len(s) :
                       /\ s[e] \in {"</svg>", "</SVG>"}
                       /\ \E k \in (i+1)..(e-1) : s[k] \in GtLexemes
                       /\ \A j \in (i+2)..(e-1) :
                            ~(s[j] \in {"</svg>", "</SVG>"}
                              /\ \E k \in (i+1)..(j-1) : s[k] \in GtLexemes) }
         IN  IF es = {} THEN NoMatch
             ELSE [NoMatch EXCEPT !.a = i, !.e = Least(es)]

\* the references of the local file, with the title kept
Emit(alt, r, title) == [text |-> Inline(alt, r.result, title), st |-> r.st]

Keep(text, st) == [text |-> text, st |-> st]

\* process_ref_image(match) that forgets the title of the definition
ProcessRefImageNoTitle(s, i, m, ctx, st) ==
    LET alt    == SubSeq(s, i+2, m.a-1)
        ref_id == SubSeq(s, m.a+2, m.e-1)
    IN  IF ~Defined(ctx.reference_links, ref_id) THEN Keep(SubSeq(s, i, m.e), st)
        ELSE LET url == RefOf(ctx.reference_links, ref_id).url
             IN  IF IsRemote(url)
                 THEN The({ IF r.result # <<>> THEN Emit(alt, r, <<>>)
                            ELSE Keep(<<>>, r.st) :
                            r \in {Download(url, ctx, st)} })
                 ELSE IF IsSvgPath(url)
                 THEN The({ Emit(alt, r, <<>>) : r \in {ConvertImage(url, ctx, st)} })
                 ELSE Keep(Inline(alt, url, <<>>), st)

\* process_ref_image(match) of _process_reference_images
ProcessRefImage(s, i, m, ctx, st) ==
    LET alt    == SubSeq(s, i+2, m.a-1)
        ref_id == SubSeq(s, m.a+2, m.e-1)
    IN  IF ~Defined(ctx.reference_links, ref_id) THEN Keep(SubSeq(s, i, m.e), st)
        ELSE LET ref   == RefOf(ctx.reference_links, ref_id)
                 url   == ref.url
                 title == ref.title
             IN  IF IsRemote(url)
                 THEN The({ IF r.result # <<>> THEN Emit(alt, r, title)
                            ELSE Keep(<<>>, r.st) :
                            r \in {Download(url, ctx, st)} })
                 ELSE IF IsSvgPath(url)
                 THEN The({ Emit(alt, r, title) : r \in {ConvertImage(url, ctx, st)} })
                 ELSE Keep(Inline(alt, url, title), st)

\* process_md_image(match) of _process_inline_images, which resolves a
\* local path before converting; by == "script" gives process_md_image of
\* process_markdown instead, which converts the path as written
ProcessMdImage(s, i, alt, path, title, last, ctx, st) ==
    LET group0 == SubSeq(s, i, last)
    IN  IF IsRemote(path)
        THEN The({ IF r.result # <<>> THEN Emit(alt, r, title)
                   ELSE Keep(<<>>, r.st) :
                   r \in {Download(path, ctx, st)} })
        ELSE The({
             IF IsSvgPath(path) /\ img_path # <<>>
             THEN The({ Emit(alt, r, title) : r \in {ConvertImage(img_path, ctx, st)} })
             ELSE IF ctx.by # "script" /\ StartsWith(path, <<"/">>) /\ img_path # <<>>
             THEN Keep(Inline(alt, Tail(img_path), title), st)
             ELSE Keep(group0, st) :
                 img_path \in {IF ctx.by = "script" THEN path
                               ELSE ResolveImagePath(path, ctx)} })

\* img.get("src", "") on the lexemes of a tag
TagAttr(tag, name) ==
    LET hits == { k \in 2..(Len(tag) - 3) :
                    /\ IsSpace(tag[k-1]) /\ tag[k] = name
                    /\ tag[k+1] = "=" /\ tag[k+2] = QUOTE
                    /\ \E e \in (k+3)..Len(tag) : tag[e] = QUOTE }
    IN  IF hits = {} THEN [from |-> 0, to |-> 0, value |-> <<>>]
        ELSE LET k == Least(hits)
                 e == Least({ q \in (k+3)..Len(tag) : tag[q] = QUOTE })
             IN  [from |-> k + 3, to |-> e - 1, value |-> SubSeq(tag, k+3, e-1)]

\* process_html_image(match): a tag whose src is an SVG path is written
\* again by the HTML library, with the new src and closed by />
ProcessHtmlImage(s, i, m, ctx, st) ==
    LET tag == SubSeq(s, i, m.e)
        src == TagAttr(tag, "src")
    IN  IF src.from # 0 /\ IsSvgPath(src.value)
        THEN The({ [text |-> <<"<img">> \o SubSeq(tag, 2, src.from - 1) \o r.result
                               \o SubSeq(tag, src.to + 1, Len(tag) - 1) \o <<"/>">>,
                    st   |-> r.st] :
                   r \in {ConvertImage(src.value, ctx, st)} })
        ELSE Keep(tag, st)

\* _is_valid_svg(content): the HTML library gives attribute names in lower
\* case, so the look-up of viewBox finds nothing
IsValidSvg(svg_content) ==
    LET lowered == [k \in 1..Len(svg_content) |->
                      IF svg_content[k] = "<SVG" THEN "<svg" ELSE svg_content[k]]
    IN  \/ AttrValue(lowered, "width") # <<>>
        \/ AttrValue(lowered, "height") # <<>>

\* process_svg(match)
ProcessSvg(s, i, m, ctx, st) ==
    LET svg_content == SubSeq(s, i, m.e)
    IN  IF ~IsValidSvg(svg_content) THEN Keep(svg_content, st)
        ELSE The({
             LET png_filename == IF c.ok THEN PngName(svg_content) ELSE <<>>
             IN  Keep(IF png_filename = <<>> THEN svg_content
                      ELSE <<"!", "[", "]", "(", "images/">>
                             \o (IF ctx.by = "script" THEN <<>> ELSE <<"emoji/">>)
                             \o png_filename \o <<")">>,
                      Record(st, "content", svg_content, png_filename, c.dir,
                             c.conv.wrote)) :
                 c \in {CachedConvert(svg_content, st.dir, ctx.importOk,
                                      ctx.cairoOk, ctx.inkscape)} })

MatchAt(pattern, s, i) ==
    CASE pattern = "ref"    -> RefImageMatchAt(s, i)
      [] pattern = "titled" -> TitledImageMatchAt(s, i)
      [] pattern = "plain"  -> PlainImageMatchAt(s, i)
      [] pattern = "html"   -> HtmlImageMatchAt(s, i)
      [] pattern = "svg"    -> InlineSvgMatchAt(s, i)

Replacement(pattern, s, i, m, ctx, st) ==
    CASE pattern = "ref"    -> ProcessRefImage(s, i, m, ctx, st)
      [] pattern \in {"titled", "plain"} ->
            ProcessMdImage(s, i, SubSeq(s, i+2, m.a-1),
                           SubSeq(s, m.a+2, (IF pattern = "titled" THEN m.b ELSE m.e) - 1),
                           IF pattern = "titled" THEN SubSeq(s, m.c+1, m.d-1) ELSE <<>>,
                           m.e, ctx, st)
      [] pattern = "html"   -> ProcessHtmlImage(s, i, m, ctx, st)
      [] pattern = "svg"    -> ProcessSvg(s, i, m, ctx, st)

\* re.sub(pattern, callback, content) from position pos on: the matches
\* from left to right, none overlapping another, each replaced by what the
\* callback returns
RECURSIVE SubImages(_, _, _, _, _)
SubImages(pattern, s, pos, ctx, st) ==
    LET starts == { i \in pos..Len(s) : MatchAt(pattern, s, i).a # 0 }
    IN  IF starts = {} THEN [out |-> SubSeq(s, pos, Len(s)), st |-> st]
        ELSE The({ The({ The({ The({
                 [out |-> SubSeq(s, pos, i-1) \o r.text \o rest.out,
                  st  |-> rest.st] :
                     rest \in {SubImages(pattern, s, m.e + 1, ctx, r.st)} }) :
                     r    \in {Replacement(pattern, s, i, m, ctx, st)} }) :
                     m    \in {MatchAt(pattern, s, i)} }) :
                     i    \in {Least(starts)} })

-----------------------------------------------------------------------------
(* The two Markdown pipelines: process_markdown_content of the package,    *)
(* eight passes, and process_markdown of the script, the first six.        *)

Context(by, env, importOk, cairoOk, inkscape, reference_links) ==
    [by |-> by, source |-> env.source, served |-> env.served,
     importOk |-> importOk, cairoOk |-> cairoOk, inkscape |-> inkscape,
     reference_links |-> reference_links]

\* the patterns of passes 2 to 5, in the order they are applied: the
\* reference pass, the two inline passes, the HTML pass, the inline SVG pass
Patterns == <<"ref", "titled", "plain", "html", "svg">>

\* the passes from the k-th pattern on; done holds what each pass before
\* gave, the last one last
RECURSIVE SubPatterns(_, _, _)
SubPatterns(k, ctx, done) ==
    IF k > Len(Patterns) THEN done
    ELSE The({ SubPatterns(k + 1, ctx, Append(done, r)) :
               r \in {SubImages(Patterns[k], done[Len(done)].out, 1, ctx,
                                done[Len(done)].st)} })

\* passes 1 to 5, the same in both pipelines but for the context
ImagePasses(content, by, env, importOk, cairoOk, inkscape, dir) ==
    The({ The({ The({
        [titles |-> titles, refs |-> done[2].out, inline |-> done[4].out,
         html |-> done[5].out, out |-> done[6].out, st |-> done[6].st] :
            done   \in {SubPatterns(1, ctx,
                            <<[out |-> titles,
                               st  |-> [dir |-> dir, calls |-> <<>>]]>>)} }) :
            ctx    \in {Context(by, env, importOk, cairoOk, inkscape,
                                 ExtractReferenceLinks(titles))} }) :
            titles \in {RemoveCodeBlockTitles(content)} })

\* passes 6 to 8
TextPasses(content, mll) ==
    The({ The({ JoinLines(EscapeYamlOutList(wrapped)) :
            wrapped \in {JoinLines(HardWrapOutList(escaped, mll))} }) :
            escaped \in {JoinLines(EscapeOutList(content))} })

\* one run of a pipeline on a content
Run(by, content, env, importOk, cairoOk, inkscape, dir, mll) ==
    The({ [by |-> by, in |-> content, refs |-> images.refs, images |-> images.out,
           out |-> IF by = "script" THEN images.out ELSE TextPasses(images.out, mll),
           calls |-> images.st.calls, dir |-> images.st.dir] :
          images \in {ImagePasses(content, by, env, importOk, cairoOk, inkscape,
                                  dir)} })

-----------------------------------------------------------------------------
(* Markdown documents, written as elements: text, an inline image, the     *)
(* use of a reference-style image, a reference-style link, a definition.   *)

Text(s)                == [k |-> "text", a |-> s, b |-> <<>>, t |-> <<>>]
Img(alt, path, title)  == [k |-> "img", a |-> alt, b |-> path, t |-> title]
Use(alt, id)           == [k |-> "use", a |-> alt, b |-> id, t |-> <<>>]
Link(text, id)         == [k |-> "link", a |-> text, b |-> id, t |-> <<>>]
Def(id, url, title)    == [k |-> "def", a |-> id, b |-> url, t |-> title]

RenderElement(e) ==
    CASE e.k = "text" -> e.a
      [] e.k = "img"  -> Inline(e.a, e.b, e.t)
      [] e.k = "use"  -> <<"!", "[">> \o e.a \o <<"]", "[">> \o e.b \o <<"]">>
      [] e.k = "link" -> <<"[">> \o e.a \o <<"]", "[">> \o e.b \o <<"]">>
      [] e.k = "def"  -> <<"[">> \o e.a \o <<"]", ":", " ">> \o e.b
                           \o (IF e.t # <<>> THEN <<" ", QUOTE>> \o e.t \o <<QUOTE>>
                               ELSE <<>>)

RECURSIVE Render(_)
Render(doc) ==
    IF doc = <<>> THEN <<>> ELSE RenderElement(Head(doc)) \o Render(Tail(doc))

Br   == Text(<<NL>>)
Sp   == Text(<<" ">>)
End  == Text(<<" ", "end">>)
TT   == <<"T">>
None == <<>>

DocRemoteBadge   == <<Use(<<"a">>, <<"r">>), End, Br, Def(<<"r">>, UrlBadge, TT)>>
DocRemotePhoto   == <<Use(<<"a">>, <<"r">>), Br, Def(<<"r">>, UrlPhoto, None)>>
DocBracketBefore == <<Text(<<"!", "[", "x", "]", " ">>), Use(<<"b">>, <<"r">>), Br,
                      Def(<<"r">>, UrlPhoto, TT)>>
DocInlineBefore  == <<Img(<<"a">>, PathPhoto, None), Sp, Use(<<"b">>, <<"r">>), Br,
                      Def(<<"r">>, UrlBadge, None)>>
DocTwoUses       == <<Use(<<"a">>, <<"r">>), Sp, Use(<<"b">>, <<"q">>), Br,
                      Def(<<"r">>, UrlPhoto, TT), Br, Def(<<"q">>, UrlBadge, None)>>
DocUndefined     == <<Use(<<"a">>, <<"z">>), Br, Def(<<"r">>, UrlPhoto, TT)>>

DocUseThenLink   == <<Use(<<"a">>, <<"r">>), Sp, Link(<<"t">>, <<"r">>), Br,
                      Def(<<"r">>, PathPhoto, TT)>>
DocLinkedImage   == <<Text(<<"[">>), Use(<<"Logo">>, <<"r">>),
                      Text(<<"]", "[", "h", "]">>), Br,
                      Def(<<"r">>, PathPhoto, None), Br,
                      Def(<<"h">>, <<"docs/", "index", ".md">>, None)>>
DocLocalPhoto    == <<Img(<<"a">>, PathPhoto, TT), End>>
DocRootedPhoto   == <<Img(<<"a">>, <<"/">> \o PathPhoto, None)>>
DocLocalRef      == <<Use(<<"a">>, <<"r">>), End, Br, Def(<<"r">>, PathPhoto, TT)>>

DocDownThenTitled == <<Img(<<"a">>, UrlDown, None), Text(<<" ", "see", " ">>),
                       Img(<<"b">>, PathPhoto, TT), End>>
DocDown          == <<Img(<<"a">>, UrlDown, None), End>>
DocDownTitled    == <<Text(<<"see", " ">>), Img(<<"a">>, UrlDown, TT), End>>
DocDownRef       == <<Use(<<"a">>, <<"r">>), End, Br, Def(<<"r">>, UrlDown, TT)>>
DocBadgeInline   == <<Img(<<"a">>, UrlBadge, None), End>>
DocPhotoTwice    == <<Img(<<"a">>, UrlPhoto, TT), Sp, Img(<<"b">>, UrlPhoto, None)>>
DocBadgeTwice    == <<Use(<<"a">>, <<"r">>), Sp, Img(<<"b">>, UrlBadge, None), Br,
                      Def(<<"r">>, UrlBadge, None)>>

DocLogo          == <<Img(<<"a">>, PathLogo, None), End>>
DocGone          == <<Img(<<"a">>, PathGone, None), End>>
DocIcons         == <<Img(<<"a">>, PathIcons, TT), End>>
DocFigure        == <<Img(<<"a">>, <<"./", "fig", ".svg">>, None)>>
DocUpLogo        == <<Img(<<"a">>, <<"../", "logo", ".svg">>, None)>>
DocLogoRef       == <<Use(<<"a">>, <<"r">>), Br, Def(<<"r">>, PathLogo, None)>>

DocHtmlImage     == <<Text(<<"<img", " ", "src", "=", QUOTE>> \o PathLogo
                           \o <<QUOTE, ">">>), End>>
DocInlineSvg     == <<Text(<<"see", " ">>), Text(SvgSized), End>>
SvgBoxOnly       == SvgDoc(Attr("viewBox", <<"0", " ", "0", " ", "2", "0", " ", "1", "0">>),
                           <<"<rect/>">>)
SvgBare          == SvgDoc(<<>>, <<"<rect/>">>)
DocInlineSvgBox  == <<Text(<<"see", " ">>), Text(SvgBoxOnly), End>>
DocInlineSvgBare == <<Text(SvgBare), End>>
DocTitledCode    == <<Text(<<BT, BT, BT, "py", " ", "title", "=", QUOTE, "x", QUOTE,
                             NL, "x", NL, BT, BT, BT>>)>>
DocRuleAndEscape == <<Text(<<"-", "-", "-", NL, BS, "u", "1", "2", "a", "F", NL>>),
                      Img(<<"a">>, PathPhoto, None)>>

DocPool ==
    {DocRemoteBadge, DocRemotePhoto, DocBracketBefore, DocInlineBefore,
     DocTwoUses, DocUndefined,
     DocUseThenLink, DocLinkedImage, DocLocalPhoto, DocRootedPhoto, DocLocalRef,
     DocDownThenTitled, DocDown, DocDownTitled, DocDownRef, DocBadgeInline,
     DocPhotoTwice, DocBadgeTwice,
     DocLogo, DocGone, DocIcons, DocFigure, DocUpLogo, DocLogoRef,
     DocHtmlImage, DocInlineSvg, DocInlineSvgBox, DocInlineSvgBare,
     DocTitledCode, DocRuleAndEscape}

ServedUrls == {UrlBadge, UrlPhoto}

InitMd ==
    /\ mdDoc \in DocPool
    /\ mdCtx \in [source : BOOLEAN, served : {{}, ServedUrls}]
    /\ mdRuns = <<>>
    /\ imgImport \in BOOLEAN
    /\ imgDir = {}
    /\ imgLog = <<>>
    /\ txIn = <<>> /\ txMll = 80 /\ txOp = "idle"
    /\ txOutList = <<>> /\ txOut = <<>>
    /\ fpRepo = "none" /\ fpConfig = NoConfig /\ fpImages = <<>> /\ fpCall = NoCall
    /\ NoRun

\* the content a run is given: the document, or the output of the run before
NextContent ==
    IF mdRuns = <<>> THEN Render(mdDoc) ELSE mdRuns[Len(mdRuns)].out

Process(by) ==
    /\ Len(mdRuns) < MaxRuns
    /\ \E cairoOk \in BOOLEAN, inkscape \in InkOutcomes :
       \E content \in {NextContent} :
       \E run \in {Run(by, content, mdCtx, imgImport, cairoOk, inkscape,
                       imgDir, txMll)} :
           /\ mdRuns' = Append(mdRuns, run)
           /\ imgDir' = run.dir
    /\ UNCHANGED <<mdDoc, mdCtx, imgImport, imgLog, textVars, fileVars, runVars>>

\* MarkdownProcessor.process_markdown_content(content, source_file, repo_root)
ProcessMarkdownContent == Process("package")

\* RepoPDFConverter.process_markdown(content)
ProcessMarkdown == Process("script")

NextMd == ProcessMarkdownContent \/ ProcessMarkdown

SpecMd == InitMd /\ [][NextMd]_vars

-----------------------------------------------------------------------------
(* Inputs of the single text passes: contents made of at most MaxChunks    *)
(* chunks of lines.                                                        *)

Fence3 == <<BT, BT, BT>>
Fence4 == <<BT, BT, BT, BT>>

LnOpenPy          == Fence3 \o <<"p", "y">>
LnOpenLatex       == Fence3 \o LatexWord
LnOpenLatexSpaced == Fence3 \o <<" ", "L", "a", "T", "e", "x", " ">>
LnOpenRawAttr     == Fence3 \o RawLatexAttr
LnOpen4Latex      == Fence4 \o LatexWord
LnShort           == <<"o", "k">>

Letters == <<"m", "n", "o", "p", "q", "r", "s">>

\* a line of n ordinary characters, no two neighbours alike
LongLine(n) == [i \in 1..n |-> Letters[((i - 1) % Len(Letters)) + 1]]

MllValues == {20, 60, 80, 240}

WrapChunks ==
    { <<LnOpenPy, LongLine(121), Fence3>>,
      <<LnOpenPy, LongLine(80), LongLine(41)>>,
      <<LnOpenLatex, LongLine(121), Fence3>>,
      <<LnOpenLatexSpaced, LongLine(41), Fence3>>,
      <<LnOpenRawAttr, LongLine(121), Fence3>>,
      <<LnOpen4Latex, Fence3, LongLine(41), Fence4>>,
      <<Fence4, LongLine(241), Fence4>>,
      <<LongLine(121)>>,
      <<Fence3>>,
      <<LnShort>> }

LnEscU4    == <<"a", BS, "u", "1", "2", "a", "F", "z">>
LnEscU8    == <<BS, "U", "0", "0", "0", "1", "F", "6", "0", "a">>
LnEscMixed == <<BS, "u", "1", "2", " ">> \o LnEscU8 \o <<BS, "u", "0", "0", "e", "9", "9">>

EscapeChunks ==
    { <<Fence3, LnEscU4, Fence3>>,
      <<LnOpenPy, LnEscU8>>,
      <<Fence4, Fence3, LnEscMixed, Fence4>>,
      <<LnEscU4>>,
      <<LnEscMixed>>,
      <<Fence3>>,
      <<LnShort, <<>>>> }

YamlChunks ==
    { <<RuleLine>>,
      <<RuleLine, RuleLine>>,
      <<<<"-", "-", "-", "-">>>>,
      <<<<"-", "-", "-", " ">>, <<"o", "-", "-", "-">>>>,
      <<EscapedRule>>,
      <<Fence3, RuleLine, Fence3>>,
      <<<<>>>>,
      <<LnShort>> }

\* the contents of at most n chunks drawn from a set of chunks
ContentsOf(chunks, n) ==
    { JoinLines(Flatten(cs)) : cs \in UNION { [1..k -> chunks] : k \in 0..n } }

TextInputs ==
    ContentsOf(WrapChunks, MaxChunks) \cup ContentsOf(EscapeChunks, MaxChunks)
        \cup ContentsOf(YamlChunks, MaxChunks)

-----------------------------------------------------------------------------
(* The single text passes as operations *)

InitText ==
    /\ txIn \in TextInputs
    /\ txMll \in MllValues
    /\ txOp = "none"
    /\ txOutList = <<>>
    /\ txOut = <<>>
    /\ imgImport = TRUE /\ imgDir = {} /\ imgLog = <<>>
    /\ mdDoc = <<>> /\ mdCtx = NoCtx /\ mdRuns = <<>>
    /\ fpRepo = "none" /\ fpConfig = NoConfig /\ fpImages = <<>> /\ fpCall = NoCall
    /\ NoRun

HardWrapCodeBlocks ==
    /\ txOp = "none"
    /\ txOp' = "wrap"
    /\ txOutList' = HardWrapOutList(txIn, txMll)
    /\ txOut' = JoinLines(txOutList')
    /\ UNCHANGED <<txIn, txMll, imgVars, mdVars, fileVars, runVars>>

EscapeBackslashUSequences ==
    /\ txOp = "none"
    /\ txOp' = "escape"
    /\ txOutList' = EscapeOutList(txIn)
    /\ txOut' = JoinLines(txOutList')
    /\ UNCHANGED <<txIn, txMll, imgVars, mdVars, fileVars, runVars>>

EscapeYamlDelimiters ==
    /\ txOp = "none"
    /\ txOp' = "yaml"
    /\ txOutList' = EscapeYamlOutList(txIn)
    /\ txOut' = JoinLines(txOutList')
    /\ UNCHANGED <<txIn, txMll, imgVars, mdVars, fileVars, runVars>>

NextText ==
    \/ HardWrapCodeBlocks
    \/ EscapeBackslashUSequences
    \/ EscapeYamlDelimiters

SpecText == InitText /\ [][NextText]_vars

-----------------------------------------------------------------------------
(* The fenced blocks of a content, as the claims speak of them: a block    *)
(* opens at a line of three or more backticks met outside a block and      *)
(* closes at the next line that starts with the opening backticks.  A      *)
(* block is exempt from wrapping when its info string, trimmed and in      *)
(* lower case, is latex or contains {=latex}.                              *)

ExemptInfo(ln) ==
    LET info == Lower(Strip(InfoGroup(ln)))
    IN  info = LatexWord \/ Contains(info, RawLatexAttr)

\* for each line its kind, "out", "open", "body" or "close", and whether the
\* block it belongs to is exempt
RECURSIVE BlockKinds(_, _, _)
BlockKinds(lines, open, exempt) ==
    IF lines = <<>> THEN <<>>
    ELSE LET ln == Head(lines)
         IN  IF open = <<>>
             THEN IF FenceMatches(ln)
                  THEN <<[kind |-> "open", exempt |-> ExemptInfo(ln)]>>
                         \o BlockKinds(Tail(lines), FenceGroup(ln), ExemptInfo(ln))
                  ELSE <<[kind |-> "out", exempt |-> FALSE]>>
                         \o BlockKinds(Tail(lines), <<>>, FALSE)
             ELSE IF StartsWith(ln, open)
                  THEN <<[kind |-> "close", exempt |-> exempt]>>
                         \o BlockKinds(Tail(lines), <<>>, FALSE)
                  ELSE <<[kind |-> "body", exempt |-> exempt]>>
                         \o BlockKinds(Tail(lines), open, exempt)

InLines  == SplitLines(txIn)
InKinds  == BlockKinds(InLines, <<>>, FALSE)

CeilDiv(a, b) == (a + b - 1) \div b

ClaimedThreshold == Max(40, txMll)
ClaimedWidth     == Max(40, Min(160, (3 * txMll) \div 4))

\* line i is strictly inside a block that is not exempt and is over the threshold
LongCodeLine(i) ==
    /\ InKinds[i].kind = "body"
    /\ ~InKinds[i].exempt
    /\ Len(InLines[i]) > ClaimedThreshold

-----------------------------------------------------------------------------
(* C1: in _hard_wrap_code_blocks every line strictly inside a non-exempt   *)
(* fenced block that is longer than max(40, max_line_length) is replaced   *)
(* by exactly ceil(L / wrap_width) consecutive segments of at most         *)
(* wrap_width characters each, wrap_width being                            *)
(* max(40, min(160, floor(0.75 * max_line_length))), and the segments put  *)
(* together in order are the original line.                                *)
WrapSplitsLongCodeLines ==
    txOp = "wrap" =>
        /\ Len(txOutList) = Len(InLines)
        /\ txOutList # <<>> =>
             Split(txOut, NL) =
                Flatten([i \in 1..Len(txOutList) |-> Split(txOutList[i], NL)])
        /\ \A i \in 1..Len(InLines) :
             LongCodeLine(i) =>
                LET segs == Split(txOutList[i], NL)
                IN  /\ Len(segs) = CeilDiv(Len(InLines[i]), ClaimedWidth)
                    /\ \A k \in 1..Len(segs) : Len(segs[k]) <= ClaimedWidth
                    /\ Flatten(segs) = InLines[i]

\* a long code line that was split in three or more segments, the last one short
WrapSplitsLongCodeLinesWitness ==
    /\ txOp = "wrap"
    /\ \E i \in 1..Len(InLines) :
         /\ LongCodeLine(i)
         /\ LET segs == Split(txOutList[i], NL)
            IN  Len(segs) >= 3 /\ Len(segs[Len(segs)]) < ClaimedWidth

-----------------------------------------------------------------------------
(* C2: in _escape_backslash_u_sequences every backslash-u sequence of 4    *)
(* hex digits and every backslash-U sequence of 8 hex digits on a line     *)
(* outside a fenced block is escaped, that is, written as                  *)
(* \textbackslash{} followed by the letter and the digits, and every line  *)
(* of a fenced block, opening and closing line included, is emitted        *)
(* verbatim.                                                               *)

IntendedTemplate(letter, group1) ==
    <<BS, "textbackslash", "{", "}", letter>> \o group1

RECURSIVE IntendedSub(_, _, _)
IntendedSub(ln, letter, n) ==
    LET hits == BackslashSeqAt(ln, letter, n)
    IN  IF hits = {} THEN ln
        ELSE LET i == CHOOSE h \in hits : \A j \in hits : h <= j
             IN  SubSeq(ln, 1, i-1)
                   \o IntendedTemplate(letter, SubSeq(ln, i+2, i+n+1))
                   \o IntendedSub(SubSeq(ln, i+n+2, Len(ln)), letter, n)

IntendedEscapeLine(ln) == IntendedSub(IntendedSub(ln, "U", 8), "u", 4)

EscapesOutsideFencesOnly ==
    txOp = "escape" =>
        /\ Len(txOutList) = Len(InLines)
        /\ \A i \in 1..Len(InLines) :
             IF InKinds[i].kind = "out"
             THEN txOutList[i] = IntendedEscapeLine(InLines[i])
             ELSE txOutList[i] = InLines[i]

-----------------------------------------------------------------------------
(* C3: in _hard_wrap_code_blocks no line inside a fenced block tagged as   *)
(* raw output format (info string latex, or containing {=latex}) is ever   *)
(* split, whatever its length, and the exemption ends at the closing fence *)
(* of that block: a long line of an ordinary block that follows is split.  *)
RawLatexBlocksNotWrapped ==
    txOp = "wrap" =>
        /\ Len(txOutList) = Len(InLines)
        /\ \A i \in 1..Len(InLines) :
             (InKinds[i].kind = "body" /\ InKinds[i].exempt) =>
                 txOutList[i] = InLines[i]
        /\ \A i \in 1..Len(InLines) :
             (LongCodeLine(i) /\ \E j \in 1..(i-1) : InKinds[j].exempt) =>
                 /\ txOutList[i] # InLines[i]
                 /\ Flatten(Split(txOutList[i], NL)) = InLines[i]

\* an exempt block with a line over the threshold, closed, and after it an
\* ordinary block with a line over the threshold
RawLatexBlocksNotWrappedWitness ==
    /\ txOp = "wrap"
    /\ \E i, j \in 1..Len(InLines) :
         /\ i < j
         /\ InKinds[i].kind = "body"
         /\ InKinds[i].exempt
         /\ Len(InLines[i]) > ClaimedThreshold
         /\ txOutList[i] = InLines[i]
         /\ LongCodeLine(j)
         /\ txOutList[j] # InLines[j]

-----------------------------------------------------------------------------
(* C4: after the last Markdown pass no line of the output is exactly ---:  *)
(* every input line that is exactly --- is emitted as \---, and the pass   *)
(* changes no other line.                                                  *)
YamlRuleLinesEscaped ==
    txOp = "yaml" =>
        LET ins  == Split(txIn, NL)
            outs == Split(txOut, NL)
        IN  /\ Len(outs) = Len(ins)
            /\ \A k \in 1..Len(ins) :
                 /\ outs[k] # RuleLine
                 /\ ins[k] = RuleLine => outs[k] = EscapedRule
                 /\ ins[k] # RuleLine => outs[k] = ins[k]

\* a content with a --- line, escaped, beside a line that starts with ---
YamlRuleLinesEscapedWitness ==
    /\ txOp = "yaml"
    /\ LET ins  == Split(txIn, NL)
           outs == Split(txOut, NL)
       IN  \E k, m \in 1..Len(ins) :
             /\ ins[k] = RuleLine
             /\ outs[k] = EscapedRule
             /\ ins[m] # RuleLine
             /\ StartsWith(ins[m], RuleLine)
             /\ outs[m] = ins[m]


-----------------------------------------------------------------------------
(* The Markdown runs, as the claims speak of them.                         *)

Elements(doc, kind) == { k \in 1..Len(doc) : doc[k].k = kind }

\* the definition of an id in a document that defines it once
DefinitionOf(doc, id) ==
    doc[CHOOSE k \in Elements(doc, "def") : doc[k].a = id]

DefinedOnce(doc, id) ==
    Cardinality({ k \in Elements(doc, "def") : doc[k].a = id }) = 1

\* what the download of a url returned in a run, the empty sequence if it
\* returned the empty string or was not asked for
Fetched(run, url) ==
    LET ks == { k \in 1..Len(run.calls) :
                  run.calls[k].op = "download" /\ run.calls[k].arg = url }
    IN  IF ks = {} THEN <<>> ELSE run.calls[CHOOSE k \in ks : TRUE].result

\* every reference-style image of the document has its id defined, once,
\* as a remote URL, and the run has downloaded it; the document has no
\* reference-style links
RemoteUsesFetched(doc, run) ==
    /\ Elements(doc, "use") # {}
    /\ Elements(doc, "link") = {}
    /\ \A k \in Elements(doc, "use") :
         /\ DefinedOnce(doc, doc[k].b)
         /\ IsRemote(DefinitionOf(doc, doc[k].b).b)
         /\ Fetched(run, DefinitionOf(doc, doc[k].b).b) # <<>>

\* the inline form the claim gives for a use
ClaimedInline(doc, run, use) ==
    LET def == DefinitionOf(doc, use.b)
    IN  <<"!", "[">> \o use.a \o <<"]", "(">> \o Fetched(run, def.b)
          \o (IF def.t = <<>> THEN <<>> ELSE <<" ", QUOTE>> \o def.t \o <<QUOTE>>)
          \o <<")">>

RECURSIVE ClaimedRefs(_, _, _)
ClaimedRefs(doc, run, k) ==
    IF k > Len(doc) THEN <<>>
    ELSE (IF doc[k].k = "use" THEN ClaimedInline(doc, run, doc[k])
          ELSE RenderElement(doc[k]))
         \o ClaimedRefs(doc, run, k + 1)

\* the run was given the document itself
OfDocument(k) == k \in 1..Len(mdRuns) /\ mdRuns[k].in = Render(mdDoc)

\* C5: a reference-style image whose id is defined as a remote URL, with or
\* without a title, and whose download succeeds, is rewritten by the
\* reference pass of either pipeline to the inline form with the same alt
\* text, the path the download returned and the title of the definition if
\* it has one; the form is still there in the output of the run.
RefImagesInlined ==
    \A k \in 1..Len(mdRuns) :
        (OfDocument(k) /\ RemoteUsesFetched(mdDoc, mdRuns[k])) =>
            /\ mdRuns[k].refs = ClaimedRefs(mdDoc, mdRuns[k], 1)
            /\ \A u \in Elements(mdDoc, "use") :
                 /\ Contains(mdRuns[k].out, ClaimedInline(mdDoc, mdRuns[k], mdDoc[u]))
                 /\ StartsWith(Fetched(mdRuns[k], DefinitionOf(mdDoc, mdDoc[u].b).b),
                               <<"images/">>)

\* C5 witness: a document with a titled and an untitled remote definition,
\* both downloaded, the first an ordinary file and the second an SVG that
\* was converted.
RefImagesInlinedWitness ==
    /\ mdDoc = DocTwoUses
    /\ OfDocument(1)
    /\ mdRuns[1].by = "package"
    /\ RemoteUsesFetched(mdDoc, mdRuns[1])
    /\ Contains(mdRuns[1].refs,
                <<"!", "[", "a", "]", "(", "images/", Md5(UrlPhoto), ".png",
                  " ", QUOTE, "T", QUOTE, ")">>)
    /\ Contains(mdRuns[1].refs,
                <<"!", "[", "b", "]", "(", "images/", Md5(UrlBadge), ".png", ")">>)

\* every image reference of the document is a local raster file
LocalRasterOnly(doc) ==
    /\ Elements(doc, "img") \cup Elements(doc, "use") # {}
    /\ \A k \in Elements(doc, "img") \cup Elements(doc, "def") :
         ~IsRemote(doc[k].b) /\ ~IsSvgPath(doc[k].b)
    /\ \A k \in Elements(doc, "text") :
         \A j \in 1..Len(doc[k].a) : doc[k].a[j] \notin {"<img", "<svg"}

\* C6 as stated: on a content whose image references are all local raster
\* files, process_markdown_content applied to its own output gives that
\* output again.
LocalRasterIdempotent ==
    (/\ Len(mdRuns) >= 2
     /\ OfDocument(1)
     /\ LocalRasterOnly(mdDoc)
     /\ mdRuns[1].by = "package" /\ mdRuns[2].by = "package")
    => mdRuns[2].out = mdRuns[1].out

\* the URL an image element or a use refers to
TargetOf(doc, e) ==
    IF e.k = "img" THEN e.b
    ELSE IF e.k = "use" /\ DefinedOnce(doc, e.b) THEN DefinitionOf(doc, e.b).b
    ELSE <<>>

\* the image references whose download fails: remote, and not served
FailingRemote(doc) ==
    { k \in Elements(doc, "img") \cup Elements(doc, "use") :
        IsRemote(TargetOf(doc, doc[k])) /\ TargetOf(doc, doc[k]) \notin mdCtx.served }

\* the document without those references
RECURSIVE Without(_, _, _)
Without(doc, drop, k) ==
    IF k > Len(doc) THEN <<>>
    ELSE (IF k \in drop THEN <<>> ELSE <<doc[k]>>) \o Without(doc, drop, k + 1)

\* C7 as stated: when the download of a remote image fails, the whole
\* reference, inline or reference-style, is removed and the rest of the
\* content is processed as usual: the output is the output for the content
\* without the failing references.
FailedDownloadsRemoved ==
    \A k \in 1..Len(mdRuns) :
        (OfDocument(k) /\ k = 1 /\ FailingRemote(mdDoc) # {}) =>
            \E rest \in {Render(Without(mdDoc, FailingRemote(mdDoc), 1))} :
            \E cairoOk \in BOOLEAN, inkscape \in InkOutcomes :
                mdRuns[k].out =
                    Run(mdRuns[k].by, rest, mdCtx, imgImport, cairoOk, inkscape,
                        {}, txMll).out

\* a local SVG path that names no file, wherever it is looked for
MissingSvg(path) ==
    /\ IsSvgPath(path) /\ ~IsRemote(path)
    /\ ~Exists(path)
    /\ ResolveImagePath(path, [source |-> TRUE]) = <<>>

\* C8 as stated: when a local SVG referenced from Markdown cannot be
\* converted, its reference is dropped: the output keeps no reference to a
\* path the converter gave back unconverted, to an SVG file that is
\* missing, or to an empty path.
UnconvertedSvgDropped ==
    \A k \in 1..Len(mdRuns) :
        /\ \A c \in 1..Len(mdRuns[k].calls) :
             LET call == mdRuns[k].calls[c]
             IN  (call.op = "convert" /\ call.result = call.arg) =>
                     ~Contains(mdRuns[k].out, <<"(">> \o call.arg)
        /\ OfDocument(k) =>
             \A e \in Elements(mdDoc, "img") :
                 MissingSvg(mdDoc[e].b) =>
                     ~Contains(mdRuns[k].out, <<"(">> \o mdDoc[e].b)
        /\ ~Contains(mdRuns[k].out, <<"]", "(", ")">>)

-----------------------------------------------------------------------------
(* The converter calls of a run, as the claims speak of them.              *)

\* the call ran the rasterizing library or the external tool
Rasterized(e) == e.called /\ (e.conv.cairo \/ e.conv.ink)

\* two calls of one operation on the same SVG content, the first before the
\* second
SameContentCalls(i, j) ==
    /\ i \in 1..Len(imgLog) /\ j \in 1..Len(imgLog) /\ i < j
    /\ imgLog[i].op = imgLog[j].op
    /\ imgLog[i].content # <<>>
    /\ imgLog[i].content = imgLog[j].content

\* the PNG files in a directory
PngFiles(dir) == { f \in dir : f[Len(f)] = ".png" }

\* the reference an operation returns for a converted content
ReferenceOf(op, content) ==
    IF op = "file" THEN <<"images/">> \o PngName(content) ELSE PngName(content)

\* the call returned the reference of a PNG, made by itself or found there
Converted(e) == e.result = ReferenceOf(e.op, e.content)

\* C9 as stated: any two conversions of the same SVG content through the same
\* operation rasterize at most once, leave the PNG named by the content hash
\* in the image directory, and return identical references.
ConvertTwiceOnePng ==
    \A i \in 1..Len(imgLog), j \in 1..Len(imgLog) :
        SameContentCalls(i, j) =>
            /\ ~(Rasterized(imgLog[i]) /\ Rasterized(imgLog[j]))
            /\ PngName(imgLog[j].content) \in imgLog[j].after
            /\ imgLog[i].result = imgLog[j].result

\* C9 amended: once a call has returned the PNG of an SVG content, a later
\* call of the same operation on the same content (a file of identical
\* content included) runs neither the rasterizing library nor the external tool, leaves the
\* image directory as it was, with the PNG named by the content hash in it,
\* and returns the reference the first call returned.
ConvertedOnceThenCached ==
    \A i \in 1..Len(imgLog), j \in 1..Len(imgLog) :
        (SameContentCalls(i, j) /\ Converted(imgLog[i])) =>
            /\ ~imgLog[j].called
            /\ ~Rasterized(imgLog[j])
            /\ imgLog[j].after = imgLog[j].before
            /\ PngName(imgLog[j].content) \in imgLog[j].after
            /\ imgLog[j].result = imgLog[i].result

\* C9 witness: two files of identical content under different paths, the
\* first converted by the rasterizing library, the second served by the PNG
\* that is already there.
ConvertedOnceThenCachedWitness ==
    /\ Len(imgLog) = 2
    /\ SameContentCalls(1, 2)
    /\ imgLog[1].op = "file"
    /\ imgLog[1].arg # imgLog[2].arg
    /\ imgLog[1].conv.ok /\ imgLog[1].conv.cairo /\ ~imgLog[1].conv.ink
    /\ imgLog[2].result = <<"images/">> \o PngName(SvgSized)
    /\ PngFiles(imgDir) = {PngName(SvgSized)}

\* the source contains the text of a symbol element or of a bare defs element
IconSource(svg_content) ==
    Contains(svg_content, <<"<symbol">>) \/ Contains(svg_content, <<"<defs>">>)

\* C10 as stated: a conversion of an SVG source that contains a symbol
\* element or a bare defs element returns failure, writes no file and does
\* not run the external tool.
IconDefinitionsRejected ==
    \A k \in 1..Len(imgLog) :
        (imgLog[k].called /\ IconSource(imgLog[k].content)) =>
            /\ ~imgLog[k].conv.ok
            /\ ~imgLog[k].conv.wrote
            /\ ~imgLog[k].conv.ink
            /\ imgLog[k].after = imgLog[k].before

\* the source as the converter reads it, the XML declaration removed
SourceOf(svg_content) == Remove(Remove(svg_content, XmlDeclUtf8), XmlDeclPlain)

\* a dimension without the unit it is written in
WithoutUnit(v) ==
    IF v # <<>> /\ LowerChar(v[Len(v)]) \in UnitLexemes \cup {"em", "%"}
    THEN Strip(SubSeq(v, 1, Len(v) - 1)) ELSE v

\* a declared dimension that is zero, in whatever unit
DeclaredZero(v) == IsZero(WithoutUnit(Strip(v)))

\* a zero-sized SVG: the width or the height of the root is zero, or the
\* width or the height of its viewBox is
ZeroSizedSource(svg_content) ==
    LET svg   == SourceOf(svg_content)
        parts == SplitWords(Strip(AttrValue(svg, "viewBox")))
    IN  /\ WellFormed(svg)
        /\ \/ DeclaredZero(AttrValue(svg, "width"))
           \/ DeclaredZero(AttrValue(svg, "height"))
           \/ Len(parts) = 4 /\ (IsZero(parts[3]) \/ IsZero(parts[4]))

\* C11 as stated: the conversion of a zero-sized SVG (a width, a height or
\* a viewBox width or height of zero, in whatever unit and with whatever
\* other attributes) returns failure and writes no file.
ZeroSizedRejected ==
    \A k \in 1..Len(imgLog) :
        (imgLog[k].called /\ ZeroSizedSource(imgLog[k].content)) =>
            /\ ~imgLog[k].conv.ok
            /\ ~imgLog[k].conv.wrote
            /\ PngName(imgLog[k].content) \notin imgLog[k].after

\* the exit status of the external tool was 0; it left the output file
ExitZero(tool) == tool \in {"ok", "nofile"}
FileLeft(tool) == tool \in {"ok", "partial"}

\* the statement of the try block that raised did raise: the import with
\* the library not importable, the parse on a source that is not well
\* formed, the rendering after the library was called
RaisedAsLogged(e) ==
    CASE e.conv.raised = "import" -> ~imgImport
      [] e.conv.raised = "parse"  -> imgImport /\ ~WellFormed(SourceOf(e.content))
      [] e.conv.raised = "render" -> imgImport /\ e.conv.cairo
      [] OTHER                    -> FALSE

\* C12: the external tool is run only after the try block of
\* convert_svg_to_png raised; the conversion then returns success exactly
\* when the tool exits with status 0 and the output file exists, and failure
\* in every other case, the tool that cannot be started included; the
\* operation returns the reference of the PNG exactly on success.
ToolOnlyAfterError ==
    \A k \in 1..Len(imgLog) :
        imgLog[k].called =>
            /\ imgLog[k].conv.ink <=> imgLog[k].conv.raised # "none"
            /\ imgLog[k].conv.ink => RaisedAsLogged(imgLog[k])
            /\ imgLog[k].conv.ink <=> imgLog[k].conv.tool # "none"
            /\ imgLog[k].conv.ink =>
                  (imgLog[k].conv.ok <=>
                     (ExitZero(imgLog[k].conv.tool) /\ FileLeft(imgLog[k].conv.tool)))
            /\ imgLog[k].conv.ink =>
                  (Converted(imgLog[k]) <=> imgLog[k].conv.tool = "ok")

\* C12 witness: the rasterizing library was called and raised, the external
\* tool then wrote the PNG; and a call where the tool exited with status 0
\* without the file and the conversion failed.
ToolOnlyAfterErrorWitness ==
    /\ Len(imgLog) = 2
    /\ imgLog[1].called /\ imgLog[1].conv.raised = "render"
    /\ imgLog[1].conv.tool = "ok" /\ imgLog[1].conv.ok
    /\ PngName(imgLog[1].content) \in imgLog[1].after
    /\ imgLog[2].called /\ imgLog[2].conv.raised = "parse"
    /\ imgLog[2].conv.tool = "nofile" /\ ~imgLog[2].conv.ok

\* the inline SVG blocks of a document
InlineSvgs(doc) ==
    { e \in Elements(doc, "text") : doc[e].a # <<>> /\ doc[e].a[1] = "<svg" }

\* the svg element carries a width, a height or a viewBox
CarriesSize(svg) ==
    \/ AttrValue(svg, "width") # <<>>
    \/ AttrValue(svg, "height") # <<>>
    \/ AttrValue(svg, "viewBox") # <<>>

\* the run handed the block to the conversion of inline SVG
HandedToConverter(run, svg) ==
    \E c \in 1..Len(run.calls) :
        run.calls[c].op = "content" /\ run.calls[c].arg = svg

\* C13 as stated: the validity check is true exactly for an svg element
\* that carries a width, a height or a viewBox; an inline block is handed
\* to the conversion exactly when it is, and is left as it was otherwise.
InlineSvgValidity ==
    \A k \in 1..Len(mdRuns) :
        OfDocument(k) =>
            \A e \in InlineSvgs(mdDoc) :
                /\ IsValidSvg(mdDoc[e].a) <=> CarriesSize(mdDoc[e].a)
                /\ HandedToConverter(mdRuns[k], mdDoc[e].a)
                      <=> CarriesSize(mdDoc[e].a)
                /\ ~CarriesSize(mdDoc[e].a) =>
                      Contains(mdRuns[k].images, mdDoc[e].a)

\* two downloads of one URL in a run, the first before the second
SameUrlDownloads(run, i, j) ==
    /\ i \in 1..Len(run.calls) /\ j \in 1..Len(run.calls) /\ i < j
    /\ run.calls[i].op = "download" /\ run.calls[j].op = "download"
    /\ run.calls[i].arg = run.calls[j].arg

\* the files of the image directory named by the hash of a URL
FilesOf(dir, url) == { f \in dir : f[1] = Md5(url) }

-----------------------------------------------------------------------------
(* The file processor of repo-to-pdf.py: process_file and its helpers.     *)
(*                                                                         *)
(* A string of the file processor is held as the list of its lines: the    *)
(* pieces between its line breaks, each a sequence of lexemes.  The empty  *)
(* string is one empty line.  A lexeme of several characters stands for    *)
(* that run of characters, and its length is the length of the run.        *)

EmptyStr == <<<<>>>>

\* a + b
Cat(a, b) ==
    SubSeq(a, 1, Len(a) - 1) \o <<a[Len(a)] \o b[1]>> \o SubSeq(b, 2, Len(b))

\* the string with the line breaks as lexemes, and back
Flat(lines)   == JoinLines(lines)
AsLines(flat) == Split(flat, NL)

\* the lists of a list of lists, one after the other
RECURSIVE FlattenRange(_, _, _)
FlattenRange(ss, lo, hi) ==
    IF lo > hi THEN <<>>
    ELSE IF lo = hi THEN ss[lo]
    ELSE The({ FlattenRange(ss, lo, mid) \o FlattenRange(ss, mid + 1, hi) :
               mid \in {(lo + hi) \div 2} })

\* len(line)
CharLen(c) == IF c = BT THEN 1 ELSE Len(c)
RECURSIVE LineLen(_)
LineLen(line) ==
    IF line = <<>> THEN 0 ELSE CharLen(Head(line)) + LineLen(Tail(line))

IsBlank(line) == \A i \in 1..Len(line) : IsSpace(line[i])

\* content.strip()
StripLines(ls) ==
    LET full == { i \in 1..Len(ls) : ~IsBlank(ls[i]) }
    IN  IF full = {} THEN EmptyStr
        ELSE The({ IF r[1] = r[2] THEN <<Strip(ls[r[1]])>>
                   ELSE <<LStrip(ls[r[1]])>> \o SubSeq(ls, r[1] + 1, r[2] - 1)
                            \o <<RStrip(ls[r[2]])>> :
                   r \in {<<Least(full), CHOOSE i \in full : \A j \in full : j <= i>>} })

\* content.splitlines()
SplitLinesOf(ls) ==
    IF ls[Len(ls)] = <<>> THEN SubSeq(ls, 1, Len(ls) - 1) ELSE ls

\* "\n".join(lines), each entry itself a string that may hold line breaks
JoinStrings(ss) ==
    IF ss = <<>> THEN EmptyStr ELSE FlattenRange(ss, 1, Len(ss))

\* ' ' * (len(line) - len(line.lstrip()))
Indent(line) == [i \in 1..(LineLen(line) - LineLen(LStrip(line))) |-> " "]

SQUOTE == "'"
IsQuote(c) == c \in {QUOTE, SQUOTE}

MaxLength     == 80
LongString    == 100
StringPiece   == 80

Has(line, c) == \E i \in 1..Len(line) : line[i] = c

\* the loop over parts[1:] of _process_long_lines: the lines made so far
\* and the line being filled
RECURSIVE FillArrayLines(_, _, _, _, _)
FillArrayLines(parts, k, indent, current_line, formatted_parts) ==
    IF k > Len(parts) THEN Append(formatted_parts, current_line)
    ELSE IF LineLen(current_line \o <<",">> \o parts[k]) > MaxLength
    THEN FillArrayLines(parts, k + 1, indent, indent \o LStrip(parts[k]),
                        Append(formatted_parts, current_line \o <<",">>))
    ELSE FillArrayLines(parts, k + 1, indent,
                        current_line \o <<",">> \o parts[k], formatted_parts)

\* the array branch: the line broken after commas
SplitArrayLine(line) ==
    The({ FillArrayLines(parts, 2, Indent(line), parts[1], <<>>) :
          parts \in {Split(line, ",")} })

\* [s[i:i+80] for i in range(0, len(s), 80)]; the quoted strings of the
\* model are made of lexemes of ten characters, so that every piece ends
\* where a lexeme ends
RECURSIVE StringPieces(_)
StringPieces(s) ==
    IF s = <<>> THEN <<>>
    ELSE LET k == CHOOSE n \in 1..Len(s) :
                      /\ n = 1 \/ LineLen(SubSeq(s, 1, n)) <= StringPiece
                      /\ n = Len(s) \/ LineLen(SubSeq(s, 1, n + 1)) > StringPiece
         IN  <<SubSeq(s, 1, k)>> \o StringPieces(SubSeq(s, k + 1, Len(s)))

\* replacer(match): the pieces joined by the quote, a backslash, a line
\* break and the indent, and a closing quote
Replacer(s, quote, indent) ==
    LET parts == StringPieces(s)
    IN  [i \in 1..Len(parts) |->
            (IF i = 1 THEN <<>> ELSE indent) \o parts[i]
                \o (IF i = Len(parts) THEN <<quote>> ELSE <<quote, BS>>)]

\* the matches of ["']([^"']{100,})["'] at or after pos: a quote, the next
\* quote after it, a hundred characters or more between them
LongStringAt(line, i) ==
    /\ IsQuote(line[i])
    /\ \E j \in (i + 1)..Len(line) :
          /\ IsQuote(line[j])
          /\ \A m \in (i + 1)..(j - 1) : ~IsQuote(line[m])
          /\ LineLen(SubSeq(line, i + 1, j - 1)) >= LongString

ClosingQuote(line, i) ==
    Least({ j \in (i + 1)..Len(line) : IsQuote(line[j]) })

\* re.sub(pattern, replacer, line) of _break_long_strings
RECURSIVE BreakFrom(_, _, _)
BreakFrom(line, pos, done) ==
    LET starts == { i \in pos..Len(line) : LongStringAt(line, i) }
    IN  IF starts = {} THEN Cat(done, <<SubSeq(line, pos, Len(line))>>)
        ELSE The({ BreakFrom(line, m[2] + 1,
                       Cat(Cat(done, <<SubSeq(line, pos, m[1] - 1)>>),
                           Replacer(SubSeq(line, m[1] + 1, m[2] - 1), line[m[1]],
                                    Indent(line)))) :
                   m \in { <<i, ClosingQuote(line, i)>> : i \in {Least(starts)} } })

BreakLongStrings(line) == BreakFrom(line, 1, EmptyStr)

\* the line as _process_long_lines appends it: a string of one line or more
ProcessLongLine(line) ==
    IF LineLen(line) > MaxLength
    THEN IF Has(line, "[") /\ Has(line, "]") THEN SplitArrayLine(line)
         ELSE IF Has(line, QUOTE) \/ Has(line, SQUOTE) THEN BreakLongStrings(line)
         ELSE <<line>>
    ELSE <<line>>

\* _process_long_lines(content)
ProcessLongLines(content) ==
    The({ JoinStrings([i \in 1..Len(lines) |-> ProcessLongLine(lines[i])]) :
          lines \in {SplitLinesOf(content)} })


-----------------------------------------------------------------------------
(* Paths of the repository: lexemes with "/" between the components.  A    *)
(* lexeme that starts with a dot is one of DotLexemes.                     *)

IgnoredExtensions ==
    {".pyc", ".pyo", ".pyd", ".so", ".dylib", ".dll", ".class", ".o", ".obj"}

ImageExtensions == {".png", ".jpg", ".jpeg", ".gif", ".ico", ".svg", ".svgz"}

\* self.code_extensions: the extension and its language
CodeLanguages ==
    { <<".js", "javascript">>, <<".jsx", "javascript">>, <<".ts", "typescript">>,
      <<".tsx", "typescript">>, <<".vue", "javascript">>,
      <<".svelte", "javascript">>, <<".css", "css">>, <<".scss", "css">>,
      <<".sass", "css">>, <<".less", "css">>, <<".html", "html">>,
      <<".json", "javascript">>, <<".graphql", "graphql">>, <<".gql", "graphql">>,
      <<".py", "python">>, <<".java", "java">>, <<".cpp", "cpp">>, <<".c", "c">>,
      <<".go", "go">>, <<".rs", "rust">>, <<".rb", "ruby">>, <<".php", "php">>,
      <<".cs", "csharp">>, <<".sh", "bash">>, <<".bash", "bash">>,
      <<".zsh", "bash">>, <<".sql", "sql">>, <<".yaml", "yaml">>,
      <<".yml", "yaml">>, <<".toml", "toml">>, <<".xml", "xml">>,
      <<".md", "markdown">>, <<".mdx", "mdx">> }

CodeExtensions == { e[1] : e \in CodeLanguages }

\* self.code_extensions[ext]
LanguageOf(ext) == The({ e[2] : e \in { c \in CodeLanguages : c[1] = ext } })

DotLexemes ==
    IgnoredExtensions \cup ImageExtensions \cup CodeExtensions
        \cup {".min", ".lock", ".txt", ".cursorrules", ".SVG", ".github", ".cache"}

\* Path.parts of a relative path, Path.name, Path.suffix.lower()
PartsOf(path) == Split(path, "/")
NameOf(path)  == The({ parts[Len(parts)] : parts \in {PartsOf(path)} })
SuffixOf(name) ==
    IF Len(name) > 1 /\ name[Len(name)] \in DotLexemes
    THEN LowerChar(name[Len(name)]) ELSE ""

\* fnmatch.fnmatch(name, pattern) for patterns of lexemes and "*"
RECURSIVE FnMatch(_, _)
FnMatch(name, pattern) ==
    IF pattern = <<>> THEN name = <<>>
    ELSE IF Head(pattern) = "*"
    THEN \E k \in 0..Len(name) :
            FnMatch(SubSeq(name, k + 1, Len(name)), Tail(pattern))
    ELSE name # <<>> /\ Head(name) = Head(pattern)
            /\ FnMatch(Tail(name), Tail(pattern))

\* _should_ignore(file_path), file_path being the absolute path
ShouldIgnore(file_path, ignores) ==
    \E n \in 1..Len(ignores) :
        \/ Contains(file_path, ignores[n])
        \/ NameOf(file_path) = ignores[n]
        \/ Has(ignores[n], "*") /\ FnMatch(NameOf(file_path), ignores[n])

\* any(ignore in str(rel_path) for ignore in config.get('ignores', []))
InIgnoreList(rel_path, ignores) ==
    \E n \in 1..Len(ignores) : Contains(rel_path, ignores[n])

-----------------------------------------------------------------------------
(* Fragments *)

Fence == <<BT, BT, BT, BT, BT>>

\* "# {rel_path}"
TitleLine(rel_path) == <<"#", " ">> \o rel_path

\* "\n\n# {rel_path}\n\n`````{lang}\n{content}\n`````\n\n"
FencedFragment(rel_path, lang, content) ==
    <<<<>>, <<>>, TitleLine(rel_path), <<>>, Fence \o lang>> \o content
        \o <<Fence, <<>>, <<>>>>

\* "\n\n# {rel_path}\n\n{content}\n\n"
PlainFragment(rel_path, content) ==
    <<<<>>, <<>>, TitleLine(rel_path), <<>>>> \o content \o <<<<>>, <<>>>>

\* the marker of the truncation, "... (file too large, truncated)" in the
\* language of the program
TruncationMarker == <<"...", " ", "(truncated)">>

ChunkSize == 800
MaxLines  == 1000

\* the note under the title and the label of a part, the words of the
\* program's language written as the lexemes "note", "lines", "parts", "part"
NoteLine(total_lines, num_parts) ==
    <<">", " ", "note", " ", ToString(total_lines), " ", "lines", " ",
      ToString(num_parts), " ", "parts">>

PartLabel(rel_path, i, num_parts, start, end) ==
    <<"##", " ">> \o rel_path
        \o <<" ", "-", " ", "part", " ", ToString(i + 1), "/", ToString(num_parts),
             " ", "(", "lines", " ", ToString(start + 1), "-", ToString(end), ")">>

\* lines[start:end - 1] in the place of lines[start:end]
PartContentShort(lines, start, end) ==
    IF start >= end - 1 THEN EmptyStr ELSE SubSeq(lines, start + 1, end - 1)

\* lines[start:end] joined by line breaks
PartContent(lines, start, end) ==
    IF start >= end THEN EmptyStr ELSE SubSeq(lines, start + 1, end)

\* the loop of _process_large_file from part i on, result joined so far
RECURSIVE LargeFileParts(_, _, _, _, _, _)
LargeFileParts(rel_path, lines, lang, i, num_parts, result) ==
    IF i >= num_parts THEN result
    ELSE The({ LargeFileParts(rel_path, lines, lang, i + 1, num_parts,
                   Cat(Cat(Cat(Cat(result,
                       <<<<>>, PartLabel(rel_path, i, num_parts, r[1], r[2])>>),
                       <<<<>>, Fence \o lang, <<>>>>),
                       PartContent(lines, r[1], r[2])),
                       <<<<>>, Fence, <<>>>>)) :
               r \in {<<i * ChunkSize, Min((i + 1) * ChunkSize, Len(lines))>>} })

\* _process_large_file(rel_path, lines, lang)
ProcessLargeFile(rel_path, lines, lang) ==
    The({ LargeFileParts(rel_path, lines, lang, 0, num_parts,
              Cat(<<<<>>, <<>>, TitleLine(rel_path)>>,
                  <<<<>>, NoteLine(Len(lines), num_parts), <<>>>>)) :
          num_parts \in {(Len(lines) + ChunkSize - 1) \div ChunkSize} })


-----------------------------------------------------------------------------
(* The repository: each file with its path below the root, its size in     *)
(* kilobytes, whether it can be read as UTF-8 text, and its text.          *)

Ten   == "0123456789"
Forty == "aaaaaaaaaabbbbbbbbbbccccccccccdddddddddd"

\* a code line of the number k
CodeLine(k) == <<"x", ToString(k)>>

Numbered(n) == [i \in 1..n |-> CodeLine(i)]

\* a line over 80 characters that holds an array, and one that holds a
\* quoted string of 120 characters
ArrayLine  == <<" ", " ", "v", "=", "[", Forty, ",", Forty, ",", " ", Ten, "]">>
StringLine == <<" ", "s", "=", QUOTE, Ten, Ten, Ten, Ten, Ten, Ten, Ten, Ten, Ten,
                Ten, Ten, Ten, QUOTE, ";">>

\* n numbered lines, the line at k replaced by a given one
NumberedBut(n, k, line) == [i \in 1..n |-> IF i = k THEN line ELSE CodeLine(i)]

File(path, size, mode, text) ==
    [path |-> path, size |-> size, mode |-> mode, text |-> text]

Small == 1

FileMain      == File(<<"src", "/", "main", ".py">>, Small, "text",
                      <<<<>>, <<"import", " ", "os">>, <<" ", "x">>, <<" ">>, <<>>>>)
FileMinJs     == File(<<"src", "/", "a", ".min", ".js">>, Small, "text", <<<<"x">>>>)
FileVendored  == File(<<"node_modules", "/", "lib", ".js">>, Small, "text",
                      <<<<"y">>>>)
FileRebuild   == File(<<"re", "build", ".py">>, Small, "text", <<<<"z">>>>)
FileIconJs    == File(<<"src", "/", "icon", ".js">>, Small, "text",
                      <<<<"i", "=", "'", "<svg", ">", "</svg>", "'">>>>)
FileIndexHtml == File(<<"index", ".html">>, Small, "text",
                      <<<<"<p>", "logo", "</p>">>, <<"<svg", ">", "</svg>">>>>)
FileGuideMd   == File(<<"docs", "/", "guide", ".md">>, Small, "text",
                      <<<<"see", " ", "<svg", ">", "</svg>">>, <<"-", "-", "-">>>>)
FilePageMdx   == File(<<"page", ".mdx">>, Small, "text",
                      <<<<"<svg", ">", "</svg>">>>>)
FileReadme    == File(<<"README", ".md">>, Small, "text",
                      <<<<"!", "[", "a", "]", "(", "docs", "/", "photo", ".png", ")">>,
                        <<"!", "[", "b", "]", "(", "gone", ".png", ")">>>>)
FileDocsIndex == File(<<"docs", "/", "index", ".md">>, Small, "text",
                      <<<<"!", "[", "a", "]", "(", "/", "assets", "/", "photo",
                          ".png", ")">>>>)
FilePackage   == File(<<"package", ".json">>, Small, "text",
                      <<<<"{">>, ArrayLine, <<"}">>>>)
FilePackageSvg == File(<<"web", "/", "package", ".json">>, Small, "text",
                      <<<<"{", QUOTE, "<svg", QUOTE, "}">>>>)
FileLock      == File(<<"package-lock", ".json">>, Small, "text",
                      <<<<"{">>, StringLine, <<"}">>>>)
FileYarn      == File(<<"yarn", ".lock">>, Small, "text", <<<<"dep", "@", "1">>>>)
FileRules     == File(<<".cursorrules">>, Small, "text",
                      <<<<"rule">>, <<"<svg", ">">>, <<>>>>)
FileRulesIn   == File(<<".cursorrules">>, 1024, "text", <<<<"rule">>>>)
FileRulesOut  == File(<<".cursorrules">>, 1025, "text", <<<<"rule">>>>)
FileRulesRaw  == File(<<".cursorrules">>, Small, "binary", EmptyStr)
FileMid       == File(<<"src", "/", "mid", ".py">>, 300, "text", <<<<"m">>>>)
FileHalf      == File(<<"src", "/", "half", ".py">>, 512, "text", <<<<"h">>>>)
FileOverHalf  == File(<<"src", "/", "over", ".py">>, 513, "text", <<<<"o">>>>)
FileOverMd    == File(<<"docs", "/", "over", ".md">>, 513, "text", <<<<"o">>>>)
FileMidMd     == File(<<"docs", "/", "mid", ".md">>, 300, "text", <<<<"m">>>>)
FileArray     == File(<<"src", "/", "array", ".py">>, Small, "text",
                      <<<<"a">>, ArrayLine>>)
FileString    == File(<<"src", "/", "string", ".js">>, Small, "text",
                      <<StringLine, <<"b">>>>)
FileBlob      == File(<<"src", "/", "blob", ".py">>, Small, "binary", EmptyStr)
FileLocked    == File(<<"src", "/", "locked", ".py">>, Small, "denied", EmptyStr)
FileCompiled  == File(<<"src", "/", "main", ".pyc">>, Small, "binary", EmptyStr)
FileNotes     == File(<<"notes", ".txt">>, Small, "text", <<<<"n">>>>)
FileHiddenCi  == File(<<".github", "/", "ci", ".yml">>, Small, "text", <<<<"on">>>>)
FileEmpty     == File(<<"src", "/", "empty", ".py">>, Small, "text", <<<<" ">>, <<>>>>)

\* files of whole thousands of lines and around them
File1000      == File(<<"gen", "/", "k1000", ".py">>, 20, "text", Numbered(1000))
File1001      == File(<<"gen", "/", "k1001", ".py">>, 20, "text", Numbered(1001))
File1600      == File(<<"gen", "/", "k1600", ".py">>, 30, "text", Numbered(1600))
File1601      == File(<<"gen", "/", "k1601", ".py">>, 30, "text", Numbered(1601))
File1000Array == File(<<"gen", "/", "a1000", ".py">>, 20, "text",
                      NumberedBut(1000, 800, ArrayLine))
File1600String == File(<<"gen", "/", "s1600", ".js">>, 30, "text",
                      NumberedBut(1600, 2, StringLine))

\* the images of the repository: two of one name, a vector drawing
FilePhoto     == File(<<"docs", "/", "photo", ".png">>, Small, "binary", EmptyStr)
FilePhotoToo  == File(<<"assets", "/", "photo", ".png">>, 600, "binary", EmptyStr)
FileLogoSvg   == File(<<"logo", ".svg">>, Small, "text", AsLines(SvgSized))
FileArtSvgz   == File(<<"art", ".svgz">>, Small, "binary", EmptyStr)

\* the repositories, each the set of its files
Repository(repo) ==
    CASE repo = "sources" -> {FileMain, FileMinJs, FileVendored, FileRebuild,
                              FileRules, FileCompiled, FileNotes, FileHiddenCi}
      [] repo = "web"     -> {FileIconJs, FileIndexHtml, FileGuideMd, FilePageMdx,
                              FilePackageSvg, FileRules}
      [] repo = "locks"   -> {FilePackage, FileLock, FileYarn, FileArray, FileString,
                              FileEmpty}
      [] repo = "large"   -> {File1000, File1001, File1600, File1601, File1000Array,
                              File1600String}
      [] repo = "sizes"   -> {FileRulesIn, FileMid, FileHalf, FileOverHalf,
                              FileOverMd, FileMidMd, FilePhotoToo}
      [] repo = "rules"   -> {FileRulesOut, FileMid, FileBlob, FileLocked}
      [] repo = "raw"     -> {FileRulesRaw, FileMain}
      [] repo = "images"  -> {FileReadme, FileDocsIndex, FilePhoto, FilePhotoToo,
                              FileLogoSvg, FileArtSvgz}
      [] OTHER            -> {}

Repositories ==
    {"sources", "web", "locks", "large", "sizes", "rules", "raw", "images"}

\* the paths below the root of a repository that exist
RepoPaths(repo) == { f.path : f \in Repository(repo) }

\* the file of a repository at a path
FileAt(repo, path) == The({ f \in Repository(repo) : f.path = path })

\* the configurations: the ignore patterns declared, whether large files
\* are split, pdf_settings.max_file_size when a device preset
\* sets it, and the directory the repository is cloned into
WorkRoot == <<"/", "work", "/", "repo">>

\* a workspace below a directory whose name starts with a dot
HiddenRoot == <<"/", "home", "/", ".cache", "/", "repo">>

Config(ignores, split, max) ==
    [ignores |-> ignores, split_large_files |-> split, max_file_size |-> max,
     root |-> WorkRoot]

ConfigPool ==
    { Config(<<>>, TRUE, "unset"),
      Config(<<>>, FALSE, "unset"),
      Config(<<>>, TRUE, "200KB"),
      Config(<<<<"node_modules">>, <<"*", ".min", ".js">>>>, TRUE, "unset"),
      Config(<<<<"build">>, <<".cursorrules">>>>, FALSE, "unset"),
      Config(<<<<"work">>, <<"main", ".py">>>>, TRUE, "unset"),
      [Config(<<>>, TRUE, "unset") EXCEPT !.root = HiddenRoot] }

\* the runs of the model: a repository and a configuration it is read with
RepoCases ==
    { <<repo, config>> : repo \in {"sources"}, config \in ConfigPool }
        \cup { <<repo, config>> :
                  repo \in Repositories \ {"sources"},
                  config \in { c \in ConfigPool :
                                  c.ignores = <<>> /\ c.root = WorkRoot } }


-----------------------------------------------------------------------------
(* process_file: the image references of a Markdown file *)

\* the components of a path with "." skipped and ".." leaving the one before
\* it; <<"..">> when the path leaves the repository
RECURSIVE Resolve(_, _)
Resolve(parts, done) ==
    IF parts = <<>> THEN done
    ELSE IF Head(parts) \in {<<>>, <<".">>} THEN Resolve(Tail(parts), done)
    ELSE IF Head(parts) = <<"..">>
    THEN IF done = <<>> THEN <<<<"..">>>>
         ELSE Resolve(Tail(parts), SubSeq(done, 1, Len(done) - 1))
    ELSE Resolve(Tail(parts), Append(done, Head(parts)))

\* the components joined by "/"
RECURSIVE JoinPath(_)
JoinPath(parts) ==
    IF parts = <<>> THEN <<>>
    ELSE IF Len(parts) = 1 THEN parts[1]
    ELSE parts[1] \o <<"/">> \o JoinPath(Tail(parts))

\* file_path.parent, as components below the repository root
ParentOf(path) == The({ SubSeq(p, 1, Len(p) - 1) : p \in {PartsOf(path)} })

\* the file of the repository that directory / img_path names, <<>> if none
Target(repo, directory, img_path) ==
    The({ IF p \in RepoPaths(repo) THEN p ELSE <<>> :
          p \in {JoinPath(Resolve(directory \o PartsOf(img_path), <<>>))} })

\* possible_paths, each as the file of the repository it names; lstrip('./')
\* takes the leading ".", ".." and "/" off
PossiblePaths(repo, rel_path, img_path) ==
    <<Target(repo, ParentOf(rel_path), img_path),
      Target(repo, <<>>, img_path),
      Target(repo, ParentOf(rel_path), img_path),
      Target(repo, ParentOf(rel_path), LStripOf(img_path, {".", "..", "/"})),
      Target(repo, <<>>, LStripOf(img_path, {".", "..", "/"}))>>

\* the first of possible_paths that exists and is an image, <<>> if none
FoundImage(repo, rel_path, img_path) ==
    IF IsRemote(img_path) THEN <<>>
    ELSE The({ IF \E n \in 1..Len(ps) : ps[n] # <<>> /\ SuffixOf(NameOf(ps[n])) \in ImageExtensions
               THEN ps[Least({ n \in 1..Len(ps) :
                       ps[n] # <<>> /\ SuffixOf(NameOf(ps[n])) \in ImageExtensions })]
               ELSE <<>> :
               ps \in {PossiblePaths(repo, rel_path, LStripOf(img_path, {"/"}))} })

\* the image directory with a file put under a name, whatever was there
WithFile(images, name, origin) ==
    [n \in DOMAIN images \cup {name} |-> IF n = name THEN origin ELSE images[n]]

\* the first match of !\[(.*?)\]\((.*?)\) at or after pos: where it starts,
\* the "]" and the ")" that close its two groups; <<>> if there is none
ImageMatch(s, pos) ==
    LET closes(i) == { j \in (i + 2)..(Len(s) - 1) :
                         /\ s[j] = "]" /\ s[j + 1] = "("
                         /\ \A m \in (i + 2)..(j - 1) : s[m] # NL }
        ends(j)   == { k \in (j + 2)..Len(s) :
                         /\ s[k] = ")"
                         /\ \A m \in (j + 2)..(k - 1) : s[m] # NL }
        starts    == { i \in pos..(Len(s) - 1) :
                         /\ s[i] = "!" /\ s[i + 1] = "["
                         /\ closes(i) # {}
                         /\ ends(Least(closes(i))) # {} }
    IN  IF starts = {} THEN <<>>
        ELSE The({ <<m[1], m[2], Least(ends(m[2]))>> :
                   m \in { <<i, Least(closes(i))>> : i \in {Least(starts)} } })

\* re.sub(r'!\[(.*?)\]\((.*?)\)', process_image_path, content): the text
\* from pos on rewritten, and the image directory with the copies made;
\* a copy that fails leaves the reference as it was
RECURSIVE SubImagePaths(_, _, _, _, _, _, _)
SubImagePaths(repo, s, pos, rel_path, copyOk, done, images) ==
    The({ IF m = <<>> THEN [out |-> done \o SubSeq(s, pos, Len(s)), images |-> images]
          ELSE The({ IF found # <<>> /\ copyOk
                     THEN SubImagePaths(repo, s, m[3] + 1, rel_path, copyOk,
                              done \o SubSeq(s, pos, m[2] + 1) \o <<"images", "/">>
                                   \o NameOf(found) \o <<")">>,
                              WithFile(images, NameOf(found), found))
                     ELSE SubImagePaths(repo, s, m[3] + 1, rel_path, copyOk,
                              done \o SubSeq(s, pos, m[3]), images) :
                     found \in {FoundImage(repo, rel_path, SubSeq(s, m[2] + 2, m[3] - 1))} }) :
          m \in {ImageMatch(s, pos)} })


-----------------------------------------------------------------------------
(* process_file *)

\* the two size tests, in kilobytes: st_size / (1024 * 1024) > 1 for
\* .cursorrules and > 0.5 for the files read after the image test
CursorRulesLimit == 1024
SizeLimit        == 512

\* what the run meets outside the program: whether the rasterizing library
\* renders, how the external converter ends, what pandoc does, whether a
\* copy into the image directory succeeds
Env(cairoOk, inkscape, pandoc, copyOk) ==
    [cairoOk |-> cairoOk, inkscape |-> inkscape, pandoc |-> pandoc,
     copyOk |-> copyOk]

PandocOutcomes == {"ok", "empty", "missing"}

\* the outcomes that can differ for a file of this extension
EnvFor(ext) ==
    CASE ext \in {".svg"} ->
             { Env(c, i, "ok", TRUE) : c \in BOOLEAN, i \in InkOutcomes }
      [] ext \in {".md", ".mdx"} ->
             { Env(c, i, "ok", k) : c \in BOOLEAN, i \in {"ok", "fail"},
                                    k \in BOOLEAN }
      [] ext = ".html" -> { Env(TRUE, "ok", p, TRUE) : p \in PandocOutcomes }
      [] ext \in ImageExtensions -> { Env(TRUE, "ok", "ok", k) : k \in BOOLEAN }
      [] OTHER -> { Env(TRUE, "ok", "ok", TRUE) }

\* the image directory holding the names of dir, the new ones from origin
WithDir(images, dir, origin) ==
    [n \in dir |-> IF n \in DOMAIN images THEN images[n] ELSE origin]

Returned(fragment, images) ==
    [fragment |-> fragment, raised |-> "none", images |-> images]

\* an error that process_file does not catch
Raised(error, images) ==
    [fragment |-> EmptyStr, raised |-> error, images |-> images]

\* the words pandoc writes for an HTML text: the text without its tags
HtmlTags == {"<p>", "</p>", "<svg", ">", "</svg>"}
PandocOut(content) ==
    [i \in 1..Len(content) |-> SelectSeq(content[i], LAMBDA c : c \notin HtmlTags)]

\* re.sub(r'^---$', '\\---', cleaned_content, flags=re.MULTILINE)
EscapeRules(lines) ==
    [i \in 1..Len(lines) |->
        IF lines[i] = <<"-", "-", "-">> THEN <<BS, "-", "-", "-">> ELSE lines[i]]

\* the branch of the image files
ProcessImageFile(file, ext, images, importOk, env) ==
    IF ext = ".svg"
    THEN IF file.mode # "text" THEN Returned(EmptyStr, images)
         ELSE The({ Returned(EmptyStr, WithDir(images, c.dir, file.path)) :
                    c \in {CachedConvert(Flat(file.text), DOMAIN images, importOk,
                                         env.cairoOk, env.inkscape)} })
    ELSE IF ext = ".svgz" \/ file.mode = "denied" \/ ~env.copyOk
    THEN Returned(EmptyStr, images)
    ELSE Returned(EmptyStr, WithFile(images, NameOf(file.path), file.path))

\* the branch of the Markdown and MDX files
ProcessMarkdownFile(repo, file, ext, content, images, importOk, env) ==
    The({ The({ IF ext = ".mdx"
                THEN Returned(FencedFragment(file.path, <<"mdx">>,
                                  EscapeRules(AsLines(run.out))),
                              WithDir(paths.images, run.dir, file.path))
                ELSE Returned(PlainFragment(file.path,
                                  EscapeRules(AsLines(run.out))),
                              WithDir(paths.images, run.dir, file.path)) :
                run \in {Run("script", paths.out, NoCtx, importOk, env.cairoOk,
                             env.inkscape, DOMAIN paths.images, MaxLength)} }) :
          paths \in {SubImagePaths(repo, Flat(content), 1, file.path, env.copyOk, <<>>,
                                   images)} })

\* the branch of the code files
ProcessCodeFile(file, ext, content, split_large_files, images) ==
    IF \E i \in 1..Len(content) : Has(content[i], "<svg")
    THEN Returned(EmptyStr, images)
    ELSE IF NameOf(file.path) \in {<<"package", ".json">>, <<"package-lock", ".json">>,
                                   <<"yarn", ".lock">>}
    THEN Returned(FencedFragment(file.path, <<>>, content), images)
    ELSE The({ The({ IF Len(lines) > MaxLines
                     THEN IF split_large_files
                          THEN Returned(ProcessLargeFile(file.path, lines,
                                            <<LanguageOf(ext)>>), images)
                          ELSE Returned(FencedFragment(file.path, <<LanguageOf(ext)>>,
                                            SubSeq(lines, 1, MaxLines)
                                                \o <<<<>>, TruncationMarker>>),
                                        images)
                     ELSE Returned(FencedFragment(file.path, <<LanguageOf(ext)>>, long),
                                   images) :
                     lines \in {SplitLinesOf(long)} }) :
               long \in {ProcessLongLines(content)} })

\* process_file(file_path, repo_root): the fragment returned or the error
\* raised, and the image directory afterwards
ProcessFile(repo, file, config, images, importOk, env) ==
    LET name == NameOf(file.path)
        ext  == SuffixOf(name)
    IN  IF ext \in IgnoredExtensions THEN Returned(EmptyStr, images)
        ELSE IF name = <<".cursorrules">>
        THEN IF file.size > CursorRulesLimit THEN Returned(EmptyStr, images)
             ELSE IF file.mode = "denied" THEN Raised("PermissionError", images)
             ELSE IF file.mode = "binary" THEN Returned(EmptyStr, images)
             ELSE Returned(FencedFragment(file.path, <<"markdown">>,
                                          StripLines(file.text)), images)
        ELSE IF InIgnoreList(file.path, config.ignores)
        THEN Returned(EmptyStr, images)
        ELSE IF ext \in ImageExtensions
        THEN ProcessImageFile(file, ext, images, importOk, env)
        ELSE IF file.size > SizeLimit THEN Returned(EmptyStr, images)
        ELSE IF file.mode = "denied" THEN Raised("PermissionError", images)
        ELSE IF file.mode = "binary" THEN Returned(EmptyStr, images)
        ELSE The({ IF ext = ".html"
                   THEN CASE env.pandoc = "missing" ->
                                 Raised("FileNotFoundError", images)
                          [] env.pandoc = "empty" ->
                                 Returned(PlainFragment(file.path, EmptyStr), images)
                          [] OTHER ->
                                 Returned(PlainFragment(file.path, PandocOut(content)),
                                          images)
                   ELSE IF ext \in {".md", ".mdx"}
                   THEN ProcessMarkdownFile(repo, file, ext, content, images, importOk,
                                            env)
                   ELSE IF ext \in CodeExtensions /\ ext # ".mdx"
                   THEN ProcessCodeFile(file, ext, content,
                                        config.split_large_files, images)
                   ELSE Returned(EmptyStr, images) :
                   content \in {StripLines(file.text)} })

-----------------------------------------------------------------------------
(* process_file as an operation on the files of a repository *)

InitFile ==
    /\ \E run \in RepoCases : fpRepo = run[1] /\ fpConfig = run[2]
    /\ fpImages = [n \in {} |-> <<>>]
    /\ fpCall = NoCall
    /\ imgImport \in BOOLEAN
    /\ imgDir = {} /\ imgLog = <<>>
    /\ txIn = <<>> /\ txMll = 80 /\ txOp = "idle"
    /\ txOutList = <<>> /\ txOut = <<>>
    /\ mdDoc = <<>> /\ mdCtx = NoCtx /\ mdRuns = <<>>
    /\ NoRun

\* process_file(file_path, repo_root) on a file of the repository
ProcessFileCall ==
    /\ \E file \in Repository(fpRepo) :
       \E env \in EnvFor(SuffixOf(NameOf(file.path))) :
       \E r \in {ProcessFile(fpRepo, file, fpConfig, fpImages, imgImport, env)} :
           /\ fpCall' = [op |-> "process_file", file |-> file.path, env |-> env,
                         fragment |-> r.fragment, raised |-> r.raised,
                         before |-> fpImages]
           /\ fpImages' = r.images
    /\ UNCHANGED <<fpRepo, fpConfig, textVars, imgVars, mdVars, runVars>>

NextFile == ProcessFileCall

SpecFile == InitFile /\ [][NextFile]_vars


-----------------------------------------------------------------------------
(* Claims about the file processor *)

\* str(file_path): the path below the root, after the root
AbsPath(config, rel_path) == config.root \o <<"/">> \o rel_path

\* a declared pattern matches the relative path, as a substring or as a glob
MatchesIgnore(rel_path, ignores) ==
    \E n \in 1..Len(ignores) :
        \/ Contains(rel_path, ignores[n])
        \/ Has(ignores[n], "*") /\ FnMatch(rel_path, ignores[n])

Called == fpCall.op = "process_file"

\* C15: process_file returns an empty fragment for every file whose relative
\* path matches a declared ignore pattern, as a substring or as a glob, and
\* the tree and the statistics (_should_ignore) leave out exactly those files
IgnoredFilesLeftOut ==
    Called =>
        /\ MatchesIgnore(fpCall.file, fpConfig.ignores)
              => fpCall.fragment = EmptyStr
        /\ ShouldIgnore(AbsPath(fpConfig, fpCall.file), fpConfig.ignores)
              <=> MatchesIgnore(fpCall.file, fpConfig.ignores)


\* the file the last call was given, and its extension
CalledFile == FileAt(fpRepo, fpCall.file)
CalledExt  == SuffixOf(NameOf(fpCall.file))

\* '<svg' occurs in the text of the file
HoldsSvg(file) ==
    file.mode = "text" /\ \E i \in 1..Len(file.text) : Has(file.text[i], "<svg")

\* C16: for every file with a recognized code extension whose content holds
\* the substring '<svg', process_file returns an empty fragment
SvgCodeRejected ==
    Called /\ CalledExt \in CodeExtensions /\ HoldsSvg(CalledFile)
        => fpCall.raised = "none" /\ fpCall.fragment = EmptyStr


\* the same for the files the Markdown step has not taken: it fails on an
\* HTML file alone
SvgCodeRejectedPastMarkdown ==
    Called /\ CalledExt \in CodeExtensions \ {".md", ".mdx"} /\ HoldsSvg(CalledFile)
        => fpCall.raised = "none" /\ fpCall.fragment = EmptyStr

SvgCodeRejectedButHtml ==
    Called /\ CalledExt \in CodeExtensions \ {".md", ".mdx", ".html"}
           /\ HoldsSvg(CalledFile)
        => fpCall.raised = "none" /\ fpCall.fragment = EmptyStr


LockFileNames ==
    {<<"package", ".json">>, <<"package-lock", ".json">>, <<"yarn", ".lock">>}

\* a file that is not ignored, within the size ceiling, readable, without '<svg'
Admitted(file) ==
    /\ ~MatchesIgnore(file.path, fpConfig.ignores)
    /\ file.size <= SizeLimit
    /\ file.mode = "text"
    /\ ~HoldsSvg(file)

\* C17: for package.json, package-lock.json and yarn.lock (not ignored,
\* within the size ceiling, without '<svg') process_file returns a titled
\* fragment whose fence carries no language tag and whose content is the
\* text of the file as read, not passed through the long-line splitting
LockFilesFencedPlain ==
    Called /\ NameOf(fpCall.file) \in LockFileNames /\ Admitted(CalledFile)
        => /\ fpCall.raised = "none"
           /\ fpCall.fragment =
                  FencedFragment(fpCall.file, <<>>, StripLines(CalledFile.text))

\* the same for the two files of the extension .json: it holds
JsonLockFilesFencedPlain ==
    Called /\ NameOf(fpCall.file) \in LockFileNames \ {<<"yarn", ".lock">>}
           /\ Admitted(CalledFile)
        => /\ fpCall.raised = "none"
           /\ fpCall.fragment =
                  FencedFragment(fpCall.file, <<>>, StripLines(CalledFile.text))


\* the lines of a code file when process_file counts them: the text read,
\* stripped, after the long-line splitting
CountedLines(file) == SplitLinesOf(ProcessLongLines(StripLines(file.text)))

\* a file that reaches the count of the lines
IsPlainCode(file) ==
    /\ SuffixOf(NameOf(file.path)) \in CodeExtensions \ {".md", ".mdx", ".html"}
    /\ NameOf(file.path) \notin LockFileNames
    /\ ~InIgnoreList(file.path, fpConfig.ignores)
    /\ file.size <= SizeLimit
    /\ file.mode = "text"
    /\ ~HoldsSvg(file)

\* the lines of a fragment that label a part, in order
LabelsOf(fragment) ==
    { k \in 1..Len(fragment) : StartsWith(fragment[k], <<"##", " ">>) }
NthOf(S, i) == CHOOSE k \in S : Cardinality({ j \in S : j <= k }) = i

\* the lines of the part labelled at k: from the line after its opening
\* fence to the line before the next closing fence
PartLinesAt(fragment, k) ==
    SubSeq(fragment, k + 2,
           Least({ c \in (k + 2)..Len(fragment) : fragment[c] = Fence }) - 1)

CeilOver(n, size) == (n + size - 1) \div size

\* the fragment of a split file: ceil(n / 800) parts, part i labelled with
\* the lines 800 * (i - 1) + 1 .. min(800 * i, n) and holding exactly those
\* lines, in order, under a fence of the language
IsPartition(fragment, rel_path, lang, lines) ==
    LET n      == Len(lines)
        labels == LabelsOf(fragment)
    IN  /\ Cardinality(labels) = CeilOver(n, ChunkSize)
        /\ \A i \in 1..Cardinality(labels) :
              LET k     == NthOf(labels, i)
                  first == ChunkSize * (i - 1) + 1
                  last  == Min(ChunkSize * i, n)
              IN  /\ fragment[k] = PartLabel(rel_path, i - 1, Cardinality(labels),
                                             first - 1, last)
                  /\ fragment[k + 1] = Fence \o lang
                  /\ PartLinesAt(fragment, k) = SubSeq(lines, first, last)
                  /\ Len(PartLinesAt(fragment, k)) <= ChunkSize

\* the fragment of a truncated file: the first 1000 lines and the marker
IsTruncation(fragment, rel_path, lang, lines) ==
    fragment = <<<<>>, <<>>, TitleLine(rel_path), <<>>, Fence \o lang>>
                  \o SubSeq(lines, 1, MaxLines)
                  \o <<<<>>, TruncationMarker, Fence, <<>>, <<>>>>

KilobytesOf(max_file_size) == IF max_file_size = "200KB" THEN 200 ELSE 0

IsImage(path) == SuffixOf(NameOf(path)) \in ImageExtensions

\* the ceiling is the one the configuration sets
CeilingFromConfiguration ==
    Called /\ ~IsImage(fpCall.file) /\ fpConfig.max_file_size # "unset"
           /\ CalledFile.size > KilobytesOf(fpConfig.max_file_size)
        => fpCall.fragment = EmptyStr

\* the ceiling of the code and Markdown files holds for every other file
CeilingAlike ==
    Called /\ ~IsImage(fpCall.file) /\ CalledFile.size > SizeLimit
        => fpCall.fragment = EmptyStr

\* C19: process_file returns an empty fragment for every file that is not an
\* image and is larger than the configured ceiling, one bound taken from the
\* configuration and the same for Markdown, code and .cursorrules
OneConfiguredCeiling == CeilingFromConfiguration /\ CeilingAlike


-----------------------------------------------------------------------------
(* convert: the combined document *)

MaxConverts == 2

\* the names of the repositories in the order of Python's string comparison
SortedNames ==
    <<<<".cursorrules">>, <<".github">>,
      <<"README", ".md">>, <<"a", ".min", ".js">>, <<"a1000", ".py">>,
      <<"array", ".py">>, <<"art", ".svgz">>, <<"assets">>,
      <<"blob", ".py">>, <<"ci", ".yml">>, <<"docs">>,
      <<"empty", ".py">>, <<"gen">>, <<"guide", ".md">>,
      <<"half", ".py">>, <<"icon", ".js">>, <<"index", ".html">>,
      <<"index", ".md">>, <<"k1000", ".py">>, <<"k1001", ".py">>,
      <<"k1600", ".py">>, <<"k1601", ".py">>, <<"lib", ".js">>,
      <<"locked", ".py">>, <<"logo", ".svg">>, <<"main", ".py">>,
      <<"main", ".pyc">>, <<"mid", ".md">>, <<"mid", ".py">>,
      <<"node_modules">>, <<"notes", ".txt">>, <<"over", ".md">>,
      <<"over", ".py">>, <<"package-lock", ".json">>,
      <<"package", ".json">>, <<"page", ".mdx">>, <<"photo", ".png">>,
      <<"re", "build", ".py">>, <<"s1600", ".js">>, <<"src">>,
      <<"string", ".js">>, <<"web">>, <<"yarn", ".lock">>>>

NameRank(name) == CHOOSE n \in 1..Len(SortedNames) : SortedNames[n] = name

\* Path.__lt__: the components compared one by one, a path before the
\* paths it is the start of
RECURSIVE PartsLess(_, _)
PartsLess(p, q) ==
    IF q = <<>> THEN FALSE
    ELSE IF p = <<>> THEN TRUE
    ELSE IF Head(p) = Head(q) THEN PartsLess(Tail(p), Tail(q))
    ELSE NameRank(Head(p)) < NameRank(Head(q))

\* the order turned round
PathMore(p, q) == PartsLess(PartsOf(q), PartsOf(p))

PathLess(p, q) == PartsLess(PartsOf(p), PartsOf(q))

\* sorted(paths)
RECURSIVE Sorted(_)
Sorted(paths) ==
    IF paths = {} THEN <<>>
    ELSE The({ <<first>> \o Sorted(paths \ {first}) :
               first \in { p \in paths : \A q \in paths \ {p} : PathLess(p, q) } })

\* part.startswith('.') for some part of file_path.parts, the parts of the
\* absolute path
HasHiddenPart(file_path) ==
    \E n \in 1..Len(file_path) :
        /\ file_path[n] \in DotLexemes \cup {".", ".."}
        /\ n = 1 \/ file_path[n - 1] = "/"

\* all_files: the files of the sorted walk that are .cursorrules or have no
\* part that starts with a dot
AllFiles(repo, config) ==
    SelectSeq(Sorted(RepoPaths(repo)),
              LAMBDA p : \/ NameOf(p) = <<".cursorrules">>
                         \/ ~HasHiddenPart(AbsPath(config, p)))

Written(kind, file, text) == [kind |-> kind, file |-> file, text |-> text]

\* the files of the fragments of a document, in the order written
FragmentFiles(doc) ==
    The({ [n \in 1..Len(fs) |-> fs[n].file] :
          fs \in {SelectSeq(doc, LAMBDA w : w.kind = "fragment")} })

InitRun ==
    /\ \E run \in RepoCases : fpRepo = run[1] /\ fpConfig = run[2]
    /\ fpImages = [n \in {} |-> <<>>]
    /\ fpCall = NoCall
    /\ cvPc = "start" /\ cvFiles = <<>> /\ cvAt = 0 /\ cvDoc = <<>>
    /\ cvError = "none" /\ cvRuns = <<>>
    /\ cvCause = "none" /\ cvEngine = FALSE /\ cvLog = <<>> /\ cvDebug = "none"
    /\ imgImport \in BOOLEAN
    /\ imgDir = {} /\ imgLog = <<>>
    /\ txIn = <<>> /\ txMll = 80 /\ txOp = "idle"
    /\ txOutList = <<>> /\ txOut = <<>>
    /\ mdDoc = <<>> /\ mdCtx = NoCtx /\ mdRuns = <<>>

\* a handler that logs the error and returns
HandledQuietly(err, has_temp_md) == "none"

\* the error that reaches the caller of convert when err is raised inside
\* the try block: the handler reads temp_md, which has no value before
\* create_temp_markdown has returned, and re-raises err otherwise
Handled(err, has_temp_md) ==
    IF has_temp_md THEN err ELSE "UnboundLocalError"

\* convert up to create_temp_markdown: the repository cloned or updated and
\* the temporary directory made empty
CloneOrPull ==
    /\ cvPc = "start"
    /\ \E cloned \in BOOLEAN :
          IF cloned
          THEN /\ cvPc' = "front"
               /\ fpImages' = [n \in {} |-> <<>>]
               /\ cvDoc' = <<>>
               /\ UNCHANGED <<cvError, cvCause>>
          ELSE /\ cvPc' = "failed"
               /\ cvCause' = "GitCommandError"
               /\ cvError' = Handled("GitCommandError", FALSE)
               /\ UNCHANGED <<fpImages, cvDoc>>
    /\ UNCHANGED <<fpRepo, fpConfig, fpCall, cvFiles, cvAt, cvRuns, cvEngine, cvLog,
                   cvDebug, textVars, imgVars, mdVars>>

\* the sections a run writes in front of the files: the directory tree when
\* there is no template, else what the sections of the template name
FrontSections ==
    {<<"tree">>, <<>>, <<"content", "tree", "stats">>}

Section(kind) == Written(kind, <<>>, <<<<kind>>, <<>>, <<>>>>)

\* the title and the front section written, all_files collected
WriteFront ==
    /\ cvPc = "front"
    /\ \E front \in FrontSections :
          cvDoc' = <<Written("title", <<>>, <<<<"#", " ", "repo">>, <<>>, <<>>>>)>>
                      \o [n \in 1..Len(front) |-> Section(front[n])]
    /\ cvFiles' = AllFiles(fpRepo, fpConfig)
    /\ cvAt' = 1
    /\ cvPc' = "files"
    /\ UNCHANGED <<fpRepo, fpConfig, fpImages, fpCall, cvError, cvRuns, cvCause,
                   cvEngine, cvLog, cvDebug, textVars, imgVars, mdVars>>

\* a loop that gives the document up when process_file raises
AfterFileGivenUp(doc, path, r) ==
    IF r.raised # "none" THEN <<>>
    ELSE IF r.fragment # EmptyStr
    THEN Append(doc, Written("fragment", path, r.fragment))
    ELSE doc

\* the document after process_file has come back with r for a file: the
\* fragment written if there is one, nothing when an error was raised
AfterFile(doc, path, r) ==
    IF r.raised = "none" /\ r.fragment # EmptyStr
    THEN Append(doc, Written("fragment", path, r.fragment))
    ELSE doc

\* one turn of the loop over all_files: an error of process_file logged
\* and passed over
ProcessNextFile ==
    /\ cvPc = "files" /\ cvAt <= Len(cvFiles)
    /\ \E file \in {FileAt(fpRepo, cvFiles[cvAt])} :
       \E env \in EnvFor(SuffixOf(NameOf(file.path))) :
       \E r \in {ProcessFile(fpRepo, file, fpConfig, fpImages, imgImport, env)} :
           /\ cvDoc' = AfterFile(cvDoc, file.path, r)
           /\ cvLog' = IF r.raised = "none" THEN cvLog ELSE Append(cvLog, file.path)
           /\ fpImages' = r.images
    /\ cvAt' = cvAt + 1
    /\ UNCHANGED <<fpRepo, fpConfig, fpCall, cvPc, cvFiles, cvError, cvRuns, cvCause,
                   cvEngine, cvDebug, textVars, imgVars, mdVars>>

\* the outcomes of subprocess.run on the typesetting command: status zero,
\* a status that is not zero, the program not found
EngineOutcomes == {"ok", "fail", "missing"}

\* the rest of convert: the typesetting engine run on the document, a
\* non-zero status raised; the handler copies the document to debug.md
Typeset ==
    /\ cvPc = "files" /\ cvAt > Len(cvFiles)
    /\ \E status \in EngineOutcomes :
       \E err \in {CASE status = "ok" -> "none"
                     [] status = "fail" -> "Exception"
                     [] OTHER -> "FileNotFoundError"} :
          /\ cvPc' = IF err = "none" THEN "done" ELSE "failed"
          /\ cvCause' = err
          /\ cvError' = IF err = "none" THEN "none" ELSE Handled(err, TRUE)
          /\ cvEngine' = (status # "missing")
          /\ cvDebug' = IF err = "none" THEN cvDebug ELSE cvDoc
    /\ cvRuns' = Append(cvRuns, FragmentFiles(cvDoc))
    /\ UNCHANGED <<fpRepo, fpConfig, fpImages, fpCall, cvFiles, cvAt, cvDoc, cvLog,
                   textVars, imgVars, mdVars>>

\* convert called once more on the same tree
ConvertAgain ==
    /\ cvPc \in {"done", "failed"} /\ Len(cvRuns) < MaxConverts
    /\ cvPc' = "start"
    /\ cvError' = "none" /\ cvCause' = "none" /\ cvEngine' = FALSE
    /\ cvFiles' = <<>> /\ cvAt' = 0 /\ cvLog' = <<>>
    /\ UNCHANGED <<fpRepo, fpConfig, fpImages, fpCall, cvDoc, cvRuns, cvDebug,
                   textVars, imgVars, mdVars>>

NextRun == CloneOrPull \/ WriteFront \/ ProcessNextFile \/ Typeset \/ ConvertAgain

SpecRun == InitRun /\ [][NextRun]_vars


-----------------------------------------------------------------------------
(* Claims about the combined document *)

\* p comes before q in the sorted walk: at the first component where they
\* differ the name of p is the smaller string, or p ends there
ComesBefore(p, q) ==
    LET P == PartsOf(p)
        Q == PartsOf(q)
    IN  \E n \in 1..(Len(P) + 1) :
            /\ \A m \in 1..(n - 1) : m <= Len(Q) /\ P[m] = Q[m]
            /\ \/ n = Len(P) + 1 /\ Len(Q) >= n
               \/ n <= Len(P) /\ n <= Len(Q) /\ P[n] # Q[n]
                    /\ NameRank(P[n]) < NameRank(Q[n])

\* the files of a list each before the ones after it
InWalkOrder(files) ==
    \A i \in 1..Len(files) : \A j \in (i + 1)..Len(files) :
        ComesBefore(files[i], files[j])

IndexIn(files, f) == CHOOSE n \in 1..Len(files) : files[n] = f

\* C20: the fragments of the combined document are in the order of the
\* sorted walk of the files, at most one for a file, all of them after the
\* title and the front section; the runs on one tree give the same order
FragmentsInWalkOrder ==
    /\ InWalkOrder(FragmentFiles(cvDoc))
    /\ \A k \in 1..Len(cvDoc) :
          cvDoc[k].kind = "fragment" =>
              /\ k > 1 /\ cvDoc[1].kind = "title"
              /\ \A m \in k..Len(cvDoc) : cvDoc[m].kind = "fragment"
              /\ cvDoc[k].file \in RepoPaths(fpRepo)
    /\ \A a \in 1..Len(cvRuns) :
          /\ InWalkOrder(cvRuns[a])
          /\ \A b \in 1..Len(cvRuns) :
             \A i \in 1..Len(cvRuns[a]) : \A j \in (i + 1)..Len(cvRuns[a]) :
                 (\E m \in 1..Len(cvRuns[b]) : cvRuns[b][m] = cvRuns[a][i])
                 /\ (\E m \in 1..Len(cvRuns[b]) : cvRuns[b][m] = cvRuns[a][j])
                 => IndexIn(cvRuns[b], cvRuns[a][i]) < IndexIn(cvRuns[b], cvRuns[a][j])

\* two runs on one tree have ended, each with three fragments or more, one
\* of them without a fragment the other has
FragmentsInWalkOrderWitness ==
    /\ cvPc = "done" /\ Len(cvRuns) = 2
    /\ Len(cvRuns[1]) >= 3 /\ Len(cvRuns[2]) >= 3
    /\ cvRuns[1] # cvRuns[2]
    /\ FragmentFiles(cvDoc) = cvRuns[2]
    /\ Len(cvDoc) > Len(cvRuns[2]) + 1


-----------------------------------------------------------------------------
(* Claims about the errors of a run *)

\* a step of convert while it goes through all_files: the next file taken
\* up, the document only added to, and nothing added for a file whose
\* processing was logged as failed; after the last file the engine is run
\* on the document as it is
PassedOverStep ==
    /\ cvPc = "files" /\ cvAt <= Len(cvFiles) =>
          /\ cvPc' = "files" /\ cvAt' = cvAt + 1 /\ cvFiles' = cvFiles
          /\ Len(cvDoc') >= Len(cvDoc)
          /\ SubSeq(cvDoc', 1, Len(cvDoc)) = cvDoc
          /\ cvLog' # cvLog =>
                /\ cvLog' = Append(cvLog, cvFiles[cvAt])
                /\ cvDoc' = cvDoc
    /\ cvPc = "files" /\ cvAt > Len(cvFiles) =>
          /\ cvPc' \in {"done", "failed"}
          /\ cvEngine' \/ cvCause' = "FileNotFoundError"
          /\ cvDoc' = cvDoc /\ cvLog' = cvLog

\* C21: when process_file raises for a file, convert writes nothing for
\* it, keeps what it has written, goes on with the files after it in order
\* and runs the typesetting engine at the end
FileFailurePassedOver == [][PassedOverStep]_vars

\* a run has ended with the engine run, a failure logged for a file, and
\* fragments in the document of a file before it and of a file after it
FileFailurePassedOverWitness ==
    /\ cvPc = "done" /\ cvEngine
    /\ \E n \in 1..Len(cvLog) :
       \E i, j \in 1..Len(cvDoc) :
          /\ cvDoc[i].kind = "fragment" /\ cvDoc[j].kind = "fragment" /\ i < j
          /\ ComesBefore(cvDoc[i].file, cvLog[n])
          /\ ComesBefore(cvLog[n], cvDoc[j].file)
          /\ \A k \in 1..Len(cvDoc) : cvDoc[k].file # cvLog[n]


\* C22: when the typesetting engine ends with a status that is not zero,
\* convert raises an error to its caller and the combined document is
\* still there: as it was written, and copied to debug.md
EngineFailureRaised ==
    cvCause = "Exception" =>
        /\ cvPc = "failed" /\ cvEngine
        /\ cvError # "none"
        /\ cvDoc # <<>> /\ cvDoc[1].kind = "title"
        /\ cvDebug = cvDoc

\* the engine has failed on a document of two fragments or more, in a
\* second run that left a document other than the first
EngineFailureRaisedWitness ==
    /\ cvPc = "failed" /\ cvCause = "Exception" /\ cvError = "Exception"
    /\ Len(FragmentFiles(cvDoc)) >= 2
    /\ Len(cvRuns) = 2 /\ cvRuns[1] # cvRuns[2]
    /\ cvDebug = cvDoc


\* C23: when cloning or updating the repository fails, convert processes
\* no file, does not run the typesetting engine, and the error that reaches
\* its caller is the error clone_or_pull raised
CloneFailureReachesCaller ==
    cvCause = "GitCommandError" =>
        /\ cvPc = "failed"
        /\ cvFiles = <<>> /\ cvAt = 0 /\ cvLog = <<>>
        /\ ~cvEngine
        /\ cvError = "GitCommandError"

\* the part of C23 that holds: no file processed, the engine not run, and
\* an error raised to the caller
CloneFailureStopsRun ==
    cvCause = "GitCommandError" =>
        /\ cvPc = "failed"
        /\ cvFiles = <<>> /\ cvAt = 0 /\ cvLog = <<>>
        /\ ~cvEngine
        /\ cvError # "none"


-----------------------------------------------------------------------------
(* Claims about the files a run takes up *)

\* the files a run is to take up by their place in the repository alone:
\* .cursorrules, and the files with no part that starts with a dot
FilesByRelativePath(repo) ==
    { p \in RepoPaths(repo) : NameOf(p) = <<".cursorrules">> \/ ~HasHiddenPart(p) }

Collected == cvPc \in {"files", "done", "failed"} /\ cvAt >= 1

\* C29: the files convert takes up depend on their paths below the root of
\* the repository only, wherever the workspace directory is
WorkspacePlaceIrrelevant ==
    Collected =>
        { cvFiles[n] : n \in 1..Len(cvFiles) } = FilesByRelativePath(fpRepo)

\* what holds of C29: with no part of the path of the workspace starting
\* with a dot, the files taken up are those the relative paths give
PlainWorkspaceByRelativePath ==
    Collected /\ ~HasHiddenPart(fpConfig.root) =>
        { cvFiles[n] : n \in 1..Len(cvFiles) } = FilesByRelativePath(fpRepo)


-----------------------------------------------------------------------------
(* generate_directory_tree *)

\* the characters of the lexemes of the names of the listed trees, as the
\* numbers Python compares strings by
Codes(lexeme) ==
    CASE lexeme = "src" -> <<115, 114, 99>>
      [] lexeme = "docs" -> <<100, 111, 99, 115>>
      [] lexeme = "Lib" -> <<76, 105, 98>>
      [] lexeme = "assets" -> <<97, 115, 115, 101, 116, 115>>
      [] lexeme = ".git" -> <<46, 103, 105, 116>>
      [] lexeme = "node_modules" -> <<110, 111, 100, 101, 95, 109, 111, 100, 117, 108, 101, 115>>
      [] lexeme = "build" -> <<98, 117, 105, 108, 100>>
      [] lexeme = "a" -> <<97>>
      [] lexeme = "b" -> <<98>>
      [] lexeme = "c" -> <<99>>
      [] lexeme = "d" -> <<100>>
      [] lexeme = "e" -> <<101>>
      [] lexeme = "locked" -> <<108, 111, 99, 107, 101, 100>>
      [] lexeme = "main" -> <<109, 97, 105, 110>>
      [] lexeme = ".py" -> <<46, 112, 121>>
      [] lexeme = "Makefile" -> <<77, 97, 107, 101, 102, 105, 108, 101>>
      [] lexeme = "README" -> <<82, 69, 65, 68, 77, 69>>
      [] lexeme = ".md" -> <<46, 109, 100>>
      [] lexeme = ".cursorrules" -> <<46, 99, 117, 114, 115, 111, 114, 114, 117, 108, 101, 115>>
      [] lexeme = ".gitignore" -> <<46, 103, 105, 116, 105, 103, 110, 111, 114, 101>>
      [] lexeme = ".env" -> <<46, 101, 110, 118>>
      [] lexeme = "z" -> <<122>>
      [] lexeme = ".min" -> <<46, 109, 105, 110>>
      [] lexeme = ".js" -> <<46, 106, 115>>
      [] lexeme = "notes" -> <<110, 111, 116, 101, 115>>
      [] lexeme = ".txt" -> <<46, 116, 120, 116>>
      [] lexeme = "app" -> <<97, 112, 112>>
      [] lexeme = "Zed" -> <<90, 101, 100>>
      [] lexeme = "x" -> <<120>>
      [] OTHER -> <<>>

RECURSIVE NameCodes(_)
NameCodes(name) ==
    IF name = <<>> THEN <<>> ELSE Codes(Head(name)) \o NameCodes(Tail(name))

\* str.lower() on a character
LowerCode(c) == IF c \in 65..90 THEN c + 32 ELSE c

\* x.name.lower()
LowerName(name) ==
    The({ [i \in 1..Len(cs) |-> LowerCode(cs[i])] : cs \in {NameCodes(name)} })

\* a < b for two sequences of numbers, as Python compares strings and tuples
RECURSIVE CodesLess(_, _)
CodesLess(a, b) ==
    IF b = <<>> THEN FALSE
    ELSE IF a = <<>> THEN TRUE
    ELSE IF Head(a) = Head(b) THEN CodesLess(Tail(a), Tail(b))
    ELSE Head(a) < Head(b)

\* entry.name.startswith('.')
StartsWithDot(name) == The({ cs # <<>> /\ cs[1] = 46 : cs \in {NameCodes(name)} })

\* the entries of a tree: directories, directories that cannot be read, and
\* files with their sizes in bytes
Dir(path)        == [path |-> path, kind |-> "dir", size |-> 0]
Denied(path)     == [path |-> path, kind |-> "denied", size |-> 0]
Leaf(path, size) == [path |-> path, kind |-> "file", size |-> size]

EntryIsDir(entry) == entry.kind \in {"dir", "denied"}

\* a key that forgets which entries are directories
SortKeyByNameOnly(entry) == LowerName(NameOf(entry.path))

\* key=lambda x: (not x.is_dir(), x.name.lower())
SortKey(entry) ==
    <<IF EntryIsDir(entry) THEN 0 ELSE 1>> \o LowerName(NameOf(entry.path))

\* sorted(current_path.iterdir(), key=...)
RECURSIVE SortedEntries(_)
SortedEntries(entries) ==
    IF entries = {} THEN <<>>
    ELSE The({ <<first>> \o SortedEntries(entries \ {first}) :
               first \in { e \in entries :
                   \A f \in entries \ {e} : CodesLess(SortKey(e), SortKey(f)) } })

\* ignore.rstrip('/')
RECURSIVE RStripSlash(_)
RStripSlash(ignore) ==
    IF ignore # <<>> /\ ignore[Len(ignore)] = "/"
    THEN RStripSlash(SubSeq(ignore, 1, Len(ignore) - 1))
    ELSE ignore

\* should_ignore_dir(path)
ShouldIgnoreDir(path, ignores) ==
    \/ StartsWithDot(NameOf(path))
    \/ \E n \in 1..Len(ignores) :
          \/ RStripSlash(ignores[n]) = NameOf(path)
          \/ Contains(path, ignores[n])

\* the connectors and the indentation of the listing, the box-drawing
\* characters written with |, \ and -
LastConnector  == "\\-- "
MidConnector   == "|-- "
LastExtension  == "    "
MidExtension   == "|   "

\* the number size/unit written with one decimal, as '.1f' rounds it
OneDecimal(size, unit) ==
    LET q == (size * 10) \div unit
        r == (size * 10) % unit
        t == IF 2 * r > unit \/ (2 * r = unit /\ q % 2 = 1) THEN q + 1 ELSE q
    IN  <<ToString(t \div 10), ".", ToString(t % 10)>>

Kilo == 1024

\* size_str
SizeStr(size) ==
    IF size < Kilo THEN <<ToString(size), "B">>
    ELSE IF size < Kilo * Kilo THEN OneDecimal(size, Kilo) \o <<"KB">>
    ELSE OneDecimal(size, Kilo * Kilo) \o <<"MB">>

\* the lines of the listing
DirLine(prefix, connector, name) ==
    [prefix |-> prefix, connector |-> connector, name |-> name, dir |-> TRUE,
     size |-> <<>>]
FileLine(prefix, connector, name, size) ==
    [prefix |-> prefix, connector |-> connector, name |-> name, dir |-> FALSE,
     size |-> SizeStr(size)]
PlainLine(prefix, text) ==
    [prefix |-> prefix, connector |-> "", name |-> text, dir |-> FALSE, size |-> <<>>]


\* the trees listed
TreeFlat ==
    {Dir(<<"src">>), Leaf(<<"src", "/", "main", ".py">>, 1280),
     Leaf(<<"Makefile">>, 0), Leaf(<<"main", ".py">>, 1023),
     Leaf(<<"README", ".md">>, 1024), Leaf(<<".env">>, 12),
     Leaf(<<".gitignore">>, 30), Leaf(<<".cursorrules">>, 1048576)}
TreeHiddenLast ==
    {Dir(<<"src">>), Leaf(<<"src", "/", "x", ".py">>, 5), Dir(<<"docs">>),
     Leaf(<<".env">>, 12)}
TreeIgnoredLast ==
    {Dir(<<"src">>), Leaf(<<"src", "/", "app", ".js">>, 1536),
     Leaf(<<"src", "/", "z", ".min", ".js">>, 1572864),
     Dir(<<"node_modules">>), Leaf(<<"node_modules", "/", "x", ".py">>, 7),
     Dir(<<"assets">>), Leaf(<<"assets", "/", "a", ".min", ".js">>, 9)}
TreeDeep ==
    {Dir(<<"a">>), Dir(<<"a", "/", "b">>), Dir(<<"a", "/", "b", "/", "c">>),
     Dir(<<"a", "/", "b", "/", "c", "/", "d">>),
     Leaf(<<"a", "/", "b", "/", "c", "/", "d", "/", "e", ".py">>, 3),
     Leaf(<<"a", "/", "b", "/", "c", "/", "x", ".py">>, 4),
     Leaf(<<"a", "/", "b", "/", "x", ".py">>, 5),
     Leaf(<<"a", "/", "main", ".py">>, 6), Leaf(<<"notes", ".txt">>, 7)}
TreeCases ==
    {Dir(<<"Lib">>), Dir(<<"assets">>), Dir(<<"docs">>), Dir(<<"build">>),
     Leaf(<<"build", "/", "main", ".py">>, 8),
     Leaf(<<"docs", "/", "README", ".md">>, 2048), Leaf(<<"Zed", ".py">>, 1),
     Leaf(<<"app", ".js">>, 2), Leaf(<<"Makefile">>, 3), Leaf(<<"main", ".py">>, 4),
     Leaf(<<".gitignore">>, 5), Leaf(<<".env">>, 6), Dir(<<".git">>)}
TreeLocked ==
    {Denied(<<"locked">>), Dir(<<"src">>), Leaf(<<"src", "/", "main", ".py">>, 10),
     Leaf(<<"notes", ".txt">>, 11)}
TreeDotDirs ==
    {Dir(<<".git">>), Leaf(<<".git", "/", "x", ".py">>, 1), Dir(<<".cursorrules">>),
     Leaf(<<".cursorrules", "/", "x", ".py">>, 1), Dir(<<"src">>),
     Leaf(<<"src", "/", ".gitignore">>, 2), Leaf(<<"src", "/", ".env">>, 2)}
TreeOnlyHidden ==
    {Dir(<<".git">>), Leaf(<<".env">>, 1), Dir(<<"docs">>), Dir(<<"docs", "/", "a">>),
     Dir(<<"docs", "/", "a", "/", "b">>),
     Leaf(<<"docs", "/", "a", "/", "b", "/", "x", ".py">>, 1)}

Trees == {"flat", "hiddenlast", "ignoredlast", "deep", "cases", "locked", "dotdirs",
          "onlyhidden"}

TreeOf(tree) ==
    CASE tree = "flat" -> TreeFlat
      [] tree = "hiddenlast" -> TreeHiddenLast
      [] tree = "ignoredlast" -> TreeIgnoredLast
      [] tree = "deep" -> TreeDeep
      [] tree = "cases" -> TreeCases
      [] tree = "locked" -> TreeLocked
      [] tree = "dotdirs" -> TreeDotDirs
      [] tree = "onlyhidden" -> TreeOnlyHidden
      [] OTHER -> {}

\* the values of max_depth: the default is 3, a template can set another
TreeDepths == {1, 2, 3}

\* the directory a path lies in, the root of the repository being <<>>
DirOf(path) == JoinPath(ParentOf(path))

\* current_path.iterdir()
IterDir(tree, dir) == { e \in TreeOf(tree) : DirOf(e.path) = dir }

RECURSIVE BuildTree(_, _, _, _, _, _)
RECURSIVE ItemsFrom(_, _, _, _, _, _, _)

\* one turn of the loop of build_tree, for entry i of entries
EntryItems(tree, config, max_depth, entry, is_last, prefix, depth) ==
    LET name == NameOf(entry.path)
        current_prefix == IF is_last THEN LastConnector ELSE MidConnector
        extension      == IF is_last THEN LastExtension ELSE MidExtension
    IN  IF StartsWithDot(name) /\ name \notin {<<".cursorrules">>, <<".gitignore">>}
        THEN <<>>
        ELSE IF EntryIsDir(entry)
        THEN IF ShouldIgnoreDir(AbsPath(config, entry.path), config.ignores)
             THEN <<>>
             ELSE <<DirLine(prefix, current_prefix, name)>>
                    \o BuildTree(tree, config, max_depth, entry,
                                 Append(prefix, extension), depth + 1)
        ELSE IF ShouldIgnore(AbsPath(config, entry.path), config.ignores)
             THEN <<>>
             ELSE <<FileLine(prefix, current_prefix, name, entry.size)>>

ItemsFrom(tree, config, max_depth, entries, i, prefix, depth) ==
    IF i > Len(entries) THEN <<>>
    ELSE EntryItems(tree, config, max_depth, entries[i], i = Len(entries), prefix,
                    depth)
            \o ItemsFrom(tree, config, max_depth, entries, i + 1, prefix, depth)

\* build_tree(current_path, prefix, depth)
BuildTree(tree, config, max_depth, current, prefix, depth) ==
    IF depth > max_depth THEN <<>>
    ELSE IF current.kind = "denied"
    THEN <<PlainLine(prefix, <<"[Permission Denied]">>)>>
    ELSE The({ ItemsFrom(tree, config, max_depth, entries, 1, prefix, depth) :
               entries \in {SortedEntries(IterDir(tree, current.path))} })

\* generate_directory_tree(repo_path, max_depth): the lines of the listing
GenerateDirectoryTree(tree, config, max_depth) ==
    <<PlainLine(<<>>, <<"#", " ", "structure">>), PlainLine(<<>>, <<>>),
      PlainLine(<<>>, <<BT, BT, BT>>), PlainLine(<<>>, <<"repo", "/">>)>>
        \o BuildTree(tree, config, max_depth, Dir(<<>>), <<>>, 0)
        \o <<PlainLine(<<>>, <<BT, BT, BT>>), PlainLine(<<>>, <<>>)>>

-----------------------------------------------------------------------------
(* generate_directory_tree as an operation on a tree *)

InitTree ==
    /\ fpRepo \in Trees /\ fpConfig \in ConfigPool
    /\ fpImages = [n \in {} |-> <<>>]
    /\ fpCall = NoCall
    /\ NoRun
    /\ imgImport = TRUE /\ imgDir = {} /\ imgLog = <<>>
    /\ txIn = <<>> /\ txMll = 80 /\ txOp = "idle"
    /\ txOutList = <<>> /\ txOut = <<>>
    /\ mdDoc = <<>> /\ mdCtx = NoCtx /\ mdRuns = <<>>

GenerateDirectoryTreeCall ==
    /\ \E max_depth \in TreeDepths :
          fpCall' = [op |-> "generate_directory_tree", max_depth |-> max_depth,
                     lines |-> GenerateDirectoryTree(fpRepo, fpConfig, max_depth)]
    /\ UNCHANGED <<fpRepo, fpConfig, fpImages, runVars, textVars, imgVars, mdVars>>

NextTree == GenerateDirectoryTreeCall

SpecTree == InitTree /\ [][NextTree]_vars


-----------------------------------------------------------------------------
(* Claims about the listing of the tree *)

Listed == fpCall.op = "generate_directory_tree"

\* the lines of the listing that stand for an entry, and how deep they are:
\* the entries of the root of the repository are at level 1
IsEntryLine(line) == line.connector # ""
LevelOf(line) == Len(line.prefix) + 1

\* the line of the directory the entry of line i lies in, 0 for the root
ParentLine(lines, i) ==
    IF LevelOf(lines[i]) = 1 THEN 0
    ELSE CHOOSE j \in 1..(i - 1) :
            /\ IsEntryLine(lines[j]) /\ LevelOf(lines[j]) = LevelOf(lines[i]) - 1
            /\ \A k \in (j + 1)..(i - 1) :
                  ~(IsEntryLine(lines[k]) /\ LevelOf(lines[k]) = LevelOf(lines[j]))

\* lines i and j are entries of one directory
SameDirectory(lines, i, j) ==
    /\ IsEntryLine(lines[i]) /\ IsEntryLine(lines[j])
    /\ LevelOf(lines[i]) = LevelOf(lines[j])
    /\ ParentLine(lines, i) = ParentLine(lines, j)

\* a name with its capital letters made small
Folded(name) ==
    The({ [n \in 1..Len(cs) |-> IF cs[n] >= 65 /\ cs[n] <= 90 THEN cs[n] + 32 ELSE cs[n]] :
          cs \in {NameCodes(name)} })

AllowedDotNames == {<<".cursorrules">>, <<".gitignore">>}

\* C24: in every directory of the listing the sub-directories come before
\* the files, each of the two groups is in alphabetical order without regard
\* to case, and no name that starts with a dot is listed but .cursorrules and
\* .gitignore
DirectoriesFirstAlphabetical ==
    Listed =>
        \A lines \in {fpCall.lines} :
           /\ \A i \in 1..Len(lines) : \A j \in (i + 1)..Len(lines) :
                 SameDirectory(lines, i, j) =>
                    /\ lines[j].dir => lines[i].dir
                    /\ lines[i].dir = lines[j].dir =>
                          ~CodesLess(Folded(lines[j].name), Folded(lines[i].name))
           /\ \A i \in 1..Len(lines) :
                 IsEntryLine(lines[i]) /\ StartsWithDot(lines[i].name) =>
                    lines[i].name \in AllowedDotNames

\* a listing of a tree with hidden entries where a directory has two
\* sub-directories and two files that the order with regard to case would
\* put the other way round, and .gitignore is listed
DirectoriesFirstAlphabeticalWitness ==
    /\ Listed
    /\ \E e \in TreeOf(fpRepo) : NameOf(e.path) = <<".env">>
    /\ \E lines \in {fpCall.lines} :
          /\ \E i \in 1..Len(lines) : \E j \in (i + 1)..Len(lines) :
                /\ SameDirectory(lines, i, j) /\ lines[i].dir /\ lines[j].dir
                /\ CodesLess(NameCodes(lines[j].name), NameCodes(lines[i].name))
          /\ \E i \in 1..Len(lines) : \E j \in (i + 1)..Len(lines) :
                /\ SameDirectory(lines, i, j) /\ ~lines[i].dir /\ ~lines[j].dir
                /\ CodesLess(NameCodes(lines[j].name), NameCodes(lines[i].name))
          /\ \E i \in 1..Len(lines) :
                IsEntryLine(lines[i]) /\ lines[i].name = <<".gitignore">>

\* C26: the listing made with max_depth has no entry more than max_depth
\* levels below the root of the repository
DepthLimitKept ==
    Listed =>
        \A i \in 1..Len(fpCall.lines) :
            IsEntryLine(fpCall.lines[i]) => LevelOf(fpCall.lines[i]) <= fpCall.max_depth

\* what holds of C26: no entry more than max_depth + 1 levels below the root
DepthLimitPlusOneKept ==
    Listed =>
        \A i \in 1..Len(fpCall.lines) :
            IsEntryLine(fpCall.lines[i]) =>
                LevelOf(fpCall.lines[i]) <= fpCall.max_depth + 1

\* line i is the last line of its directory in the listing
LastListed(lines, i) ==
    \A j \in (i + 1)..Len(lines) : ~SameDirectory(lines, i, j)

\* C27: in every directory of the listing the last entry listed has the
\* closing connector and every entry listed before it the other one
ClosingConnectorOnLastListed ==
    Listed =>
        \A lines \in {fpCall.lines} : \A i \in 1..Len(lines) :
            IsEntryLine(lines[i]) =>
                lines[i].connector =
                    IF LastListed(lines, i) THEN LastConnector ELSE MidConnector

\* what holds of C27: an entry with the closing connector is the last one
\* listed of its directory
ClosingConnectorOnlyOnLast ==
    Listed =>
        \A lines \in {fpCall.lines} : \A i \in 1..Len(lines) :
            IsEntryLine(lines[i]) /\ lines[i].connector = LastConnector =>
                LastListed(lines, i)


-----------------------------------------------------------------------------
(* _resolve_image_path as an operation on a tree of files *)

\* the source file of the references, docs/guide.md, and the images of
\* the trees
FileGuide      == <<"docs/", "guide", ".md">>
FileRootPhoto  == <<"photo", ".png">>
FileDocsPhoto  == <<"docs/", "photo", ".png">>
FileRootFig    == <<"images/", "fig", ".png">>
FileDocsFig    == <<"docs/", "images/", "fig", ".png">>
FileDocsNested == <<"docs/", "docs/", "photo", ".png">>

FilesIn(tree) ==
    CASE tree = "none"   -> {FileGuide}
      [] tree = "both"   -> {FileGuide, FileRootPhoto, FileDocsPhoto}
      [] tree = "docs"   -> {FileGuide, FileDocsPhoto, FileDocsFig}
      [] tree = "root"   -> {FileGuide, FileRootPhoto, FileRootFig}
      [] tree = "figs"   -> {FileGuide, FileRootFig, FileDocsFig}
      [] tree = "nested" -> {FileGuide, FileDocsNested, FileRootPhoto}
      [] OTHER           -> {}

FileTrees == {"none", "both", "docs", "root", "figs", "nested"}

\* the paths of the references: what a path starts with, and the rest
PathStarts ==
    {<<>>, <<"/">>, <<"/", "/">>, <<"./">>, <<"../">>, <<"../", "../">>,
     <<"gone/", "../">>, <<"/", "./", "../">>}
PathRests ==
    {<<>>, <<"photo", ".png">>, <<"images/", "fig", ".png">>,
     <<"docs/", "photo", ".png">>}
ImagePaths == { start \o rest : start \in PathStarts, rest \in PathRests }

InitResolve ==
    /\ fpRepo \in FileTrees /\ fpConfig = NoConfig
    /\ fpImages = <<>>
    /\ fpCall = NoCall
    /\ NoRun
    /\ imgImport = TRUE /\ imgDir = {} /\ imgLog = <<>>
    /\ txIn = <<>> /\ txMll = 80 /\ txOp = "idle"
    /\ txOutList = <<>> /\ txOut = <<>>
    /\ mdDoc = <<>> /\ mdCtx = NoCtx /\ mdRuns = <<>>

ResolveImagePathCall ==
    /\ \E img_path \in ImagePaths : \E source_file, repo_root \in BOOLEAN :
          fpCall' = [op |-> "_resolve_image_path", img_path |-> img_path,
                     source_file |-> source_file, repo_root |-> repo_root,
                     result |-> ResolveImagePathIn(img_path,
                                    source_file /\ repo_root, FilesIn(fpRepo))]
    /\ UNCHANGED <<fpRepo, fpConfig, fpImages, runVars, textVars, imgVars, mdVars>>

NextResolve == ResolveImagePathCall

SpecResolve == InitResolve /\ [][NextResolve]_vars

\* the path of a reference without its leading slashes
Unrooted(img_path) ==
    IF img_path # <<>> /\ Head(img_path) = "/" THEN LStripOf(img_path, {"/"})
    ELSE img_path

\* the path without the dots and slashes it starts with
DotStripped(p) == LStripOf(p, {".", "/", "./", "../"})

\* the five places of C25 for a path, in the order they are tried
Candidate(k, p) ==
    CASE k = 1 -> <<RootDir>> \o SourceDir \o PurePath(p)
      [] k = 2 -> <<RootDir>> \o PurePath(p)
      [] k = 3 -> <<RootDir>> \o ResolveLex(SourceDir \o p, <<>>)
      [] k = 4 -> <<RootDir>> \o ResolveLex(SourceDir \o DotStripped(p), <<>>)
      [] OTHER -> <<RootDir>> \o PurePath(DotStripped(p))

Resolved == fpCall.op = "_resolve_image_path"

\* C25: _resolve_image_path gives back the first of the five candidates
\* that exists, in the order source directory, root, resolved, resolved
\* without the leading dots, root without the leading dots, built after
\* the leading slashes of the path are taken off; it gives no path when
\* none exists or when the source file or the root is not given
FirstExistingCandidate ==
    Resolved =>
        \E p \in {Unrooted(fpCall.img_path)} : \E files \in {FilesIn(fpRepo)} :
            IF ~fpCall.source_file \/ ~fpCall.repo_root
                  \/ \A k \in 1..5 : ~ExistsIn(Candidate(k, p), files)
            THEN fpCall.result = <<>>
            ELSE \E k \in 1..5 :
                    /\ fpCall.result = Candidate(k, p)
                    /\ ExistsIn(Candidate(k, p), files)
                    /\ \A n \in 1..(k - 1) : ~ExistsIn(Candidate(n, p), files)

\* a path that starts with a slash, for which the candidate of the source
\* directory and the candidate of the root both exist and are two files
FirstExistingCandidateWitness ==
    /\ Resolved /\ fpCall.source_file /\ fpCall.repo_root
    /\ fpCall.img_path # <<>> /\ Head(fpCall.img_path) = "/"
    /\ \E p \in {Unrooted(fpCall.img_path)} : \E files \in {FilesIn(fpRepo)} :
          /\ ExistsIn(Candidate(1, p), files) /\ ExistsIn(Candidate(2, p), files)
          /\ Walk(UnderRoot(Candidate(1, p)), <<>>, files)
                # Walk(UnderRoot(Candidate(2, p)), <<>>, files)
          /\ fpCall.result = Candidate(1, p)


-----------------------------------------------------------------------------
(* the copies in the image directory over a sequence of process_file calls *)

\* the names of an image directory that are copies of repository files
\* made by shutil.copy2 (the others are the files the converters write)
CopiedNames(images) == { n \in DOMAIN images : NameOf(images[n]) = n }

\* the copies the directory held before the last call are still the copies
\* of the same files after it
CopiesKept ==
    \A n \in CopiedNames(fpCall.before) :
        n \in DOMAIN fpImages /\ fpImages[n] = fpCall.before[n]

\* C28: no call of process_file overwrites the copy of a different image:
\* every name of the image directory stays the copy of the file it was
\* made from, so every reference rewritten to images/<name> still shows
\* the image it named
DistinctImagesKeptApart ==
    fpCall.op = "process_file" => CopiesKept

\* what does hold of C28: no copy is removed, and a copy is only ever
\* replaced by the copy of a file of the same name
CopyReplacedBySameNameOnly ==
    fpCall.op = "process_file" =>
        CopiedNames(fpCall.before) \subseteq CopiedNames(fpImages)


-----------------------------------------------------------------------------
(* the frame of _hard_wrap_code_blocks and _escape_backslash_u_sequences *)

Framed == txOp \in {"wrap", "escape"}

\* line i is one the pass is meant to rewrite: for the wrapping, a code
\* line over the threshold in a block that is not exempt; for the
\* escaping, a line outside the blocks that holds a sequence
MeantToRewrite(i) ==
    IF txOp = "wrap" THEN LongCodeLine(i)
    ELSE /\ InKinds[i].kind = "out"
         /\ BackslashSeqAt(InLines[i], "U", 8) \cup BackslashSeqAt(InLines[i], "u", 4)
               # {}

NothingToRewrite == \A i \in 1..Len(InLines) : ~MeantToRewrite(i)

\* the lines of the output are the lines of the input, one for one and in
\* their order: a fence line and any other line not meant to be rewritten
\* is emitted as it was, and a wrapped line is only split
LinesKept ==
    /\ Len(txOutList) = Len(InLines)
    /\ \A i \in 1..Len(InLines) :
          /\ InKinds[i].kind \in {"open", "close"} => txOutList[i] = InLines[i]
          /\ (txOp = "wrap" /\ InKinds[i].kind = "out") => txOutList[i] = InLines[i]
          /\ ~MeantToRewrite(i) => txOutList[i] = InLines[i]
          /\ txOp = "wrap" => Flatten(Split(txOutList[i], NL)) = InLines[i]

\* C30: the two passes leave alone what they are not meant to rewrite:
\* fence lines and, for the wrapping, the lines outside the blocks are
\* emitted as they were, no line is added, removed or reordered other than
\* by splitting a long code line, and a content with nothing to wrap or
\* to escape is returned identical to the input
FrameKept ==
    Framed => /\ LinesKept
              /\ NothingToRewrite => txOut = txIn

\* what does hold of C30: the lines are kept, and a content with nothing to
\* rewrite is returned identical but for a line break at its end, which
\* is dropped
FrameKeptButFinalBreak ==
    Framed => /\ LinesKept
              /\ NothingToRewrite => txIn \in {txOut, txOut \o <<NL>>}

=============================================================================
